---------------------------- MODULE Spec2Model ----------------------------
(***************************************************************************)
(* Content indexing and synchronisation of the markdown blog server:       *)
(* ContentIndexer (content-indexer.js), MarkdownHandler                    *)
(* (markdown-handler.js) and the public/admin request handlers of          *)
(* server.js, modelled as a state machine over the files on disk, the      *)
(* in-memory index, the chokidar watcher and the asynchronous operations   *)
(* in flight.                                                              *)
(***************************************************************************)
EXTENDS Integers, Sequences, FiniteSets, TLC

(***************************************************************************)
(* JavaScript values.  Every front-matter value and every typed field of   *)
(* a content item is a tagged record: t is the JavaScript type, n holds a  *)
(* number, boolean (1 or 0) or time value, s a string, c a string kept as  *)
(* its sequence of characters.                                             *)
(***************************************************************************)
Undefined == [t |-> "undefined", n |-> 0, s |-> "", c |-> <<>>]

Str(s) == [t |-> "str", n |-> 0, s |-> s, c |-> <<>>]

\* A string held as its sequence of characters (titles and file names).
Chars(c) == [t |-> "chars", n |-> 0, s |-> "", c |-> c]

Num(n) == [t |-> "num", n |-> n, s |-> "", c |-> <<>>]

Bool(b) == [t |-> "bool", n |-> IF b THEN 1 ELSE 0, s |-> "", c |-> <<>>]

\* A YAML sequence of one-letter strings, as an array that has an element.
List(c) == [t |-> "list", n |-> 0, s |-> "", c |-> c]

\* A JavaScript Date holding a valid time value (an abstract instant n).
DateOf(n) == [t |-> "date", n |-> n, s |-> "", c |-> <<>>]

\* A JavaScript Date whose time value is NaN ("Invalid Date").
InvalidDate == [t |-> "invalid_date", n |-> 0, s |-> "", c |-> <<>>]

\* ToBoolean: undefined, "", 0 and false are falsy; every object is truthy.
Truthy(x) ==
    CASE x.t = "undefined" -> FALSE
      [] x.t = "str" -> x.s # ""
      [] x.t = "chars" -> x.c # <<>>
      [] x.t = "num" -> x.n # 0
      [] x.t = "bool" -> x.n = 1
      [] OTHER -> TRUE

\* a || b
JsOr(a, b) == IF Truthy(a) THEN a ELSE b

\* obj.key of a plain object: undefined for a key the object does not have.
Get(obj, key) == IF key \in DOMAIN obj THEN obj[key] ELSE Undefined

\* The strings of the model that Date.parse accepts, with their instants.
\* The clock's ticks in a day; day 0 is 2025-01-01.
TicksPerDay == 10

ParsableDates == [s \in {"2025-01-01", "2025-01-02"} |->
                    IF s = "2025-01-01" THEN 0 ELSE TicksPerDay]

\* new Date(x) for a front-matter value x: a Date is copied, a string is
\* parsed (Invalid Date when it is no date), a number is a time value.
NewDate(x) ==
    CASE x.t = "date" -> x
      [] x.t = "invalid_date" -> x
      [] x.t = "num" -> DateOf(x.n)
      [] x.t = "str" -> IF x.s \in DOMAIN ParsableDates
                          THEN DateOf(ParsableDates[x.s])
                          ELSE InvalidDate
      [] OTHER -> InvalidDate

(***************************************************************************)
(* File names are sequences of one-character strings.                      *)
(***************************************************************************)
Digits == {"0", "1", "2", "3", "4", "5", "6", "7", "8", "9"}

LowerAlphabet ==
    <<"a", "b", "c", "d", "e", "f", "g", "h", "i", "j", "k", "l",
      "m", "n", "o", "p", "q", "r", "s", "t", "u", "v", "w", "x",
      "y", "z">>

UpperAlphabet ==
    <<"A", "B", "C", "D", "E", "F", "G", "H", "I", "J", "K", "L",
      "M", "N", "O", "P", "Q", "R", "S", "T", "U", "V", "W", "X",
      "Y", "Z">>

LowerLetters == {LowerAlphabet[i] : i \in DOMAIN LowerAlphabet}

UpperLetters == {UpperAlphabet[i] : i \in DOMAIN UpperAlphabet}

\* String.prototype.toLowerCase on one character.
ToLowerChar(c) ==
    IF c \in UpperLetters
      THEN LowerAlphabet[CHOOSE i \in DOMAIN UpperAlphabet : UpperAlphabet[i] = c]
      ELSE c

ToLowerCase(s) == [i \in 1..Len(s) |-> ToLowerChar(s[i])]

\* /^\d{4}-\d{2}-\d{2}-/ matches at the start of s.
HasDatePrefix(s) ==
    /\ Len(s) >= 11
    /\ \A i \in {1, 2, 3, 4, 6, 7, 9, 10} : s[i] \in Digits
    /\ \A i \in {5, 8, 11} : s[i] = "-"

\* filename.replace(/^\d{4}-\d{2}-\d{2}-/, '')
StripDatePrefix(s) ==
    IF HasDatePrefix(s) THEN SubSeq(s, 12, Len(s)) ELSE s

IsSlugChar(c) == c \in LowerLetters \cup Digits

\* A replacement without the +: every other character becomes a hyphen.
ReplaceEach(s) == [i \in 1..Len(s) |-> IF IsSlugChar(s[i]) THEN s[i] ELSE "-"]

\* .replace(/[^a-z0-9]+/g, '-'): every maximal run of other characters
\* becomes one hyphen.
RECURSIVE ReplaceRuns(_)
ReplaceRuns(s) ==
    IF s = <<>> THEN <<>>
    ELSE IF IsSlugChar(s[1]) THEN <<s[1]>> \o ReplaceRuns(Tail(s))
    ELSE IF Len(s) >= 2 /\ ~IsSlugChar(s[2]) THEN ReplaceRuns(Tail(s))
    ELSE <<"-">> \o ReplaceRuns(Tail(s))

RECURSIVE TrimLeft(_)
TrimLeft(s) ==
    IF s # <<>> /\ s[1] = "-" THEN TrimLeft(Tail(s)) ELSE s

RECURSIVE TrimRight(_)
TrimRight(s) ==
    IF s # <<>> /\ s[Len(s)] = "-"
      THEN TrimRight(SubSeq(s, 1, Len(s) - 1))
      ELSE s

\* .replace(/^-+|-+$/g, '')
TrimHyphens(s) == TrimRight(TrimLeft(s))

\* ContentIndexer._generateSlug
GenerateSlug(filename) ==
    TrimHyphens(ReplaceRuns(ToLowerCase(StripDatePrefix(filename))))


(***************************************************************************)
(* Files.  A path is a directory of the content root and a file name       *)
(* without its ".md" extension; the text of a file either fails to parse   *)
(* (gray-matter throws, or the read fails) or yields a front-matter        *)
(* object.  A front-matter object maps every key of the model to a value,  *)
(* Undefined standing for a key the file does not have.                    *)
(***************************************************************************)
Keys == {"title", "date", "type", "order", "published", "tags"}

NoKeys == [k \in Keys |-> Undefined]

NoFile == [parses |-> FALSE, exists |-> FALSE, data |-> NoKeys, body |-> ""]

\* A file whose front matter is not valid YAML.
BadFile == [parses |-> FALSE, exists |-> TRUE, data |-> NoKeys, body |-> ""]

Markdown(data, body) ==
    [parses |-> TRUE, exists |-> TRUE, data |-> data, body |-> body]

HelloBlog ==
    [dir |-> "blog",
     name |-> <<"2", "0", "2", "5", "-", "0", "1", "-", "0", "1", "-",
                "h", "e", "l", "l", "o">>]

HelloPage == [dir |-> "pages", name |-> <<"h", "e", "l", "l", "o">>]

AboutPage ==
    [dir |-> "pages", name |-> <<"A", "b", "o", "u", "t", " ", "U", "s">>]

Paths == {HelloBlog, HelloPage, AboutPage}

\* path.basename(filePath, '.md')
Basename(p) == p.name

\* The files of the callers of a ContentIndexer of their own.
QueryPaths == {[dir |-> "blog", name |-> <<c>>] : c \in {"a", "b", "c"}}

\* _generateSlug(filePath) of every file of the model.
SlugByPath == [p \in Paths \cup QueryPaths |-> GenerateSlug(Basename(p))]

\* A slug that is the file's name as it is.
SlugOfName(p) == Basename(p)

SlugOf(p) ==
    IF p \in DOMAIN SlugByPath THEN SlugByPath[p]
    ELSE GenerateSlug(Basename(p))

(***************************************************************************)
(* MarkdownHandler.parseFile: the front matter of the text read, or an     *)
(* exception when the file cannot be read or parsed.                       *)
(***************************************************************************)
ParseThrows(text) == ~text.exists \/ ~text.parses

ParsedMetadata(text) == text.data

ParsedContent(text) == text.body

(***************************************************************************)
(* ContentIndexer._indexFile builds one content item from the parsed       *)
(* front matter, the file path, the caller's type and the current time.    *)
(***************************************************************************)
\* A type taken from the caller alone, whatever the front matter says.
ContentTypeOfCaller(metadata, type) == JsOr(type, Str("page"))

\* parsed.metadata.type || type || 'page'
ContentType(metadata, type) == JsOr(JsOr(metadata["type"], type), Str("page"))

ItemTitle(metadata, filename) ==
    JsOr(metadata["title"], Chars(filename))

ItemDate(metadata, clock) ==
    IF Truthy(metadata["date"]) THEN NewDate(metadata["date"])
    ELSE DateOf(clock)

ItemOrder(metadata) == JsOr(metadata["order"], Num(0))

\* parsed.metadata.published !== false
ItemPublished(metadata) == metadata["published"] # Bool(FALSE)

ContentItem(filePath, type, metadata, clock) ==
    [slug |-> SlugOf(filePath),
     type |-> ContentType(metadata, type),
     title |-> ItemTitle(metadata, Basename(filePath)),
     date |-> ItemDate(metadata, clock),
     order |-> ItemOrder(metadata),
     published |-> ItemPublished(metadata),
     filePath |-> filePath,
     metadata |-> metadata]

(***************************************************************************)
(* The index is a JavaScript Map from slug to content item.  A Map keeps   *)
(* its keys in insertion order, which Array.from(index.values()) exposes,  *)
(* so the index is the sequence of its items in insertion order.           *)
(***************************************************************************)
IndexHas(idx, slug) == \E i \in 1..Len(idx) : idx[i].slug = slug

IndexPos(idx, slug) == CHOOSE i \in 1..Len(idx) : idx[i].slug = slug

\* A set that merges the new item over the stored one, so that a key the
\* new front matter leaves out keeps its stored value.
IndexSetMerging(idx, item) ==
    IF IndexHas(idx, item.slug)
      THEN LET old == idx[IndexPos(idx, item.slug)]
           IN [idx EXCEPT ![IndexPos(idx, item.slug)] =
                 [item EXCEPT !.metadata =
                    [k \in DOMAIN item.metadata |->
                       IF item.metadata[k] = Undefined THEN old.metadata[k]
                       ELSE item.metadata[k]]]]
      ELSE Append(idx, item)

\* A set that keeps the item already stored under the slug (first wins).
IndexSetIfAbsent(idx, item) ==
    IF IndexHas(idx, item.slug) THEN idx ELSE Append(idx, item)

\* An upsert that writes the title and the front matter into the stored
\* record and leaves its other fields as they were.
IndexSetInPlace(idx, item) ==
    IF IndexHas(idx, item.slug)
      THEN [idx EXCEPT ![IndexPos(idx, item.slug)] =
              [@ EXCEPT !.title = item.title, !.metadata = item.metadata]]
      ELSE Append(idx, item)

\* this.index.set(slug, contentItem): an existing key keeps its position.
IndexSet(idx, item) ==
    IF IndexHas(idx, item.slug)
      THEN [idx EXCEPT ![IndexPos(idx, item.slug)] = item]
      ELSE Append(idx, item)

\* this.index.delete(slug)
IndexDelete(idx, slug) ==
    IF IndexHas(idx, slug)
      THEN SubSeq(idx, 1, IndexPos(idx, slug) - 1)
             \o SubSeq(idx, IndexPos(idx, slug) + 1, Len(idx))
      ELSE idx

\* null, as a value of the shape of a content item.
NotFound ==
    [slug |-> <<>>, type |-> Undefined, title |-> Undefined,
     date |-> Undefined, order |-> Undefined, published |-> FALSE,
     filePath |-> [dir |-> "", name |-> <<>>], metadata |-> NoKeys]

\* A lookup that takes the first record whose slug starts with the slug
\* asked for.
GetBySlugStartingWith(idx, slug) ==
    LET hits == {i \in 1..Len(idx) :
                   /\ Len(idx[i].slug) >= Len(slug)
                   /\ SubSeq(idx[i].slug, 1, Len(slug)) = slug}
    IN IF hits = {} THEN NotFound
       ELSE idx[CHOOSE i \in hits : \A j \in hits : i <= j]

\* ContentIndexer.getBySlug: this.index.get(slug) || null
GetBySlug(idx, slug) ==
    IF IndexHas(idx, slug) THEN idx[IndexPos(idx, slug)] ELSE NotFound

Found(item) == item # NotFound

(***************************************************************************)
(* Array.prototype.sort as Node's V8 runs it on the short arrays of the    *)
(* model (TimSort below its minimum run length): the leading run is        *)
(* counted, reversed when strictly descending, and the remaining elements  *)
(* are inserted by binary search.  A comparator result of NaN counts as 0. *)
(***************************************************************************)
NaN == [nan |-> TRUE, n |-> 0]

Number(n) == [nan |-> FALSE, n |-> n]

\* ToNumber of an order value.
ToNumber(x) ==
    CASE x.t = "num" -> Number(x.n)
      [] x.t = "bool" -> Number(x.n)
      [] OTHER -> NaN

\* The time value of a Date.
TimeValue(d) == IF d.t = "date" THEN Number(d.n) ELSE NaN

Minus(x, y) == IF x.nan \/ y.nan THEN NaN ELSE Number(x.n - y.n)

\* A comparator whose date tie-break runs oldest first.
CompareOldestFirst(a, b) ==
    IF a.order # b.order
      THEN Minus(ToNumber(a.order), ToNumber(b.order))
      ELSE Minus(TimeValue(a.date), TimeValue(b.date))

\* The comparator of getBlogEntries and getPages.
CompareItems(a, b) ==
    IF a.order # b.order
      THEN Minus(ToNumber(a.order), ToNumber(b.order))
      ELSE Minus(TimeValue(b.date), TimeValue(a.date))

\* The sort's view of the comparator: NaN is +0.
SortCompare(a, b) ==
    IF CompareItems(a, b).nan THEN 0 ELSE CompareItems(a, b).n

Reverse(s) == [i \in 1..Len(s) |-> s[Len(s) + 1 - i]]

\* Length of the run that starts the array (CountAndMakeRun).
RECURSIVE RunLength(_, _, _)
RunLength(a, len, descending) ==
    IF len >= Len(a) THEN len
    ELSE IF descending /\ SortCompare(a[len + 1], a[len]) >= 0 THEN len
    ELSE IF ~descending /\ SortCompare(a[len + 1], a[len]) < 0 THEN len
    ELSE RunLength(a, len + 1, descending)

\* Binary search of the slot of pivot in the sorted prefix a[left+1..right].
RECURSIVE InsertionPoint(_, _, _, _)
InsertionPoint(a, pivot, left, right) ==
    IF left >= right THEN left
    ELSE LET mid == left + ((right - left) \div 2)
         IN IF SortCompare(pivot, a[mid + 1]) < 0
              THEN InsertionPoint(a, pivot, left, mid)
              ELSE InsertionPoint(a, pivot, mid + 1, right)

\* BinaryInsertionSort of a[start+1..] into the sorted prefix a[1..start].
RECURSIVE BinaryInsertionSort(_, _)
BinaryInsertionSort(a, start) ==
    IF start >= Len(a) THEN a
    ELSE LET pivot == a[start + 1]
             at == InsertionPoint(a, pivot, 0, start)
             moved == SubSeq(a, 1, at) \o <<pivot>> \o SubSeq(a, at + 1, start)
                        \o SubSeq(a, start + 2, Len(a))
         IN BinaryInsertionSort(moved, start + 1)

ArraySort(a) ==
    IF Len(a) < 2 THEN a
    ELSE LET descending == SortCompare(a[2], a[1]) < 0
             run == RunLength(a, 2, descending)
             made == IF descending
                       THEN Reverse(SubSeq(a, 1, run)) \o SubSeq(a, run + 1, Len(a))
                       ELSE a
         IN BinaryInsertionSort(made, run)

\* A filter on the type alone.
RECURSIVE FilterByType(_, _)
FilterByType(s, kind) ==
    IF s = <<>> THEN <<>>
    ELSE IF s[1].type = Str(kind)
      THEN <<s[1]>> \o FilterByType(Tail(s), kind)
      ELSE FilterByType(Tail(s), kind)

RECURSIVE Filter(_, _)
Filter(s, kind) ==
    IF s = <<>> THEN <<>>
    ELSE IF s[1].type = Str(kind) /\ s[1].published
      THEN <<s[1]>> \o Filter(Tail(s), kind)
      ELSE Filter(Tail(s), kind)

\* ContentIndexer.getBlogEntries
GetBlogEntries(idx) == ArraySort(Filter(idx, "blog"))

\* ContentIndexer.getPages
GetPages(idx) == ArraySort(Filter(idx, "page"))


(***************************************************************************)
(* String helpers of the admin handlers (server.js) and of security.js.    *)
(***************************************************************************)
\* Every maximal run of characters of the set run becomes the sequence by.
RECURSIVE CollapseRuns(_, _, _)
CollapseRuns(s, run, by) ==
    IF s = <<>> THEN <<>>
    ELSE IF s[1] \notin run THEN <<s[1]>> \o CollapseRuns(Tail(s), run, by)
    ELSE IF Len(s) >= 2 /\ s[2] \in run THEN CollapseRuns(Tail(s), run, by)
    ELSE by \o CollapseRuns(Tail(s), run, by)

Whitespace == {" "}

RECURSIVE TrimStart(_)
TrimStart(s) ==
    IF s # <<>> /\ s[1] \in Whitespace THEN TrimStart(Tail(s)) ELSE s

RECURSIVE TrimEnd(_)
TrimEnd(s) ==
    IF s # <<>> /\ s[Len(s)] \in Whitespace
      THEN TrimEnd(SubSeq(s, 1, Len(s) - 1))
      ELSE s

\* String.prototype.trim
Trim(s) == TrimEnd(TrimStart(s))

KeepsInTitle(c) == IsSlugChar(c) \/ c \in Whitespace \/ c = "-"

\* handler_adminCreatePost's slug of the title
TitleSlug(title) ==
    Trim(CollapseRuns(
           CollapseRuns(SelectSeq(ToLowerCase(title), KeepsInTitle),
                        Whitespace, <<"-">>),
           {"-"}, <<"-">>))

\* .replace(/\.\./g, '')
RECURSIVE RemoveDoubleDots(_)
RemoveDoubleDots(s) ==
    IF Len(s) < 2 THEN s
    ELSE IF s[1] = "." /\ s[2] = "." THEN RemoveDoubleDots(Tail(Tail(s)))
    ELSE <<s[1]>> \o RemoveDoubleDots(Tail(s))

NotSeparator(c) == c \notin {"/", "\\"}

IsFilenameChar(c) ==
    c \in LowerLetters \cup UpperLetters \cup Digits \cup {".", "_", "-"}

HyphenUnlessFilenameChar(s) ==
    [i \in 1..Len(s) |-> IF IsFilenameChar(s[i]) THEN s[i] ELSE "-"]

\* .substring(0, n)
Substring(s, n) == SubSeq(s, 1, IF Len(s) < n THEN Len(s) ELSE n)

DropLeadingDot(s) == IF s # <<>> /\ s[1] = "." THEN Tail(s) ELSE s

Untitled == <<"u", "n", "t", "i", "t", "l", "e", "d">>

\* security.js sanitizeFilename
SanitizeFilename(filename) ==
    IF filename = <<>> THEN <<>>
    ELSE LET cut ==
               Substring(
                 TrimHyphens(
                   CollapseRuns(
                     HyphenUnlessFilenameChar(
                       RemoveDoubleDots(SelectSeq(filename, NotSeparator))),
                     {"-"}, <<"-">>)),
                 255)
             shown == DropLeadingDot(cut)
         IN IF shown = <<>> THEN Untitled ELSE shown

DotMd == <<".", "m", "d">>

EndsWith(s, suffix) ==
    /\ Len(s) >= Len(suffix)
    /\ SubSeq(s, Len(s) - Len(suffix) + 1, Len(s)) = suffix

\* now.toISOString().split('T')[0] for the day the model runs in.
DateStr == <<"2", "0", "2", "5", "-", "0", "1", "-", "0", "1">>

\* A file name that is the title as it was sent.
CreateFilenameOfTitle(title, type) == title \o DotMd

\* The file name handler_adminCreatePost gives a new item, with ".md".
CreateFilename(title, type) ==
    LET named == IF type = "blog"
                   THEN DateStr \o <<"-">> \o TitleSlug(title) \o DotMd
                   ELSE TitleSlug(title) \o DotMd
        clean == SanitizeFilename(named)
    IN IF EndsWith(clean, DotMd) THEN clean ELSE clean \o DotMd

\* path.join(targetDir, filename), as a path of the model.
CreatePath(title, type) ==
    LET filename == CreateFilename(title, type)
    IN [dir |-> IF type = "blog" THEN "blog" ELSE "pages",
        name |-> SubSeq(filename, 1, Len(filename) - Len(DotMd))]

\* security.js isPathInContentDirectory, for a path below content/blog or
\* content/pages.
IsPathInContentDirectory(p) == p.dir \in {"blog", "pages"}

(***************************************************************************)
(* YAML double-quoted scalars, as `key: "${value}"` is parsed back.        *)
(***************************************************************************)
YamlError == [ok |-> FALSE, v |-> <<>>]

\* The characters that make a one-character escape after a backslash.
YamlEscapes ==
    {"\"", "\\", "/", " ", "_", "0", "a", "b", "e", "f", "n", "r", "t", "v",
     "N", "L", "P"}

\* The character an escape stands for; a control character is written "^".
Unescaped(c) == IF c \in {"\"", "\\", " ", "/"} THEN c ELSE "^"

\* The value of the characters between the quotes of a double-quoted scalar.
RECURSIVE YamlDoubleQuoted(_)
YamlDoubleQuoted(s) ==
    IF s = <<>> THEN [ok |-> TRUE, v |-> <<>>]
    ELSE IF s[1] = "\"" THEN YamlError
    ELSE IF s[1] = "\\"
      THEN IF Len(s) >= 2 /\ s[2] \in YamlEscapes
             THEN LET rest == YamlDoubleQuoted(Tail(Tail(s)))
                  IN IF rest.ok
                       THEN [ok |-> TRUE, v |-> <<Unescaped(s[2])>> \o rest.v]
                       ELSE YamlError
             ELSE YamlError
    ELSE LET rest == YamlDoubleQuoted(Tail(s))
         IN IF rest.ok THEN [ok |-> TRUE, v |-> <<s[1]>> \o rest.v]
            ELSE YamlError

\* value.replace(/"/g, '\\"')
RECURSIVE EscapeQuotes(_)
EscapeQuotes(s) ==
    IF s = <<>> THEN <<>>
    ELSE IF s[1] = "\"" THEN <<"\\", "\"">> \o EscapeQuotes(Tail(s))
    ELSE <<s[1]>> \o EscapeQuotes(Tail(s))

\* Instants of the clock in one day.
\* value.toISOString().split('T')[0], parsed back as a YAML date.
DateOnly(n) == n - (n % TicksPerDay)

\* Array.prototype.join(','), which `${value}` applies to an array.
RECURSIVE JoinCommas(_)
JoinCommas(c) ==
    IF Len(c) <= 1 THEN c ELSE <<c[1], ",">> \o JoinCommas(Tail(c))

\* One front-matter value as the edit and reorder handlers write it and
\* gray-matter reads it back: a string between double quotes, a date as
\* its day, anything else as `${value}`, which for an array is its elements
\* joined by commas, a plain scalar that YAML reads as one string.
Rewritten(x) ==
    CASE x.t = "list" -> [ok |-> TRUE, v |-> Chars(JoinCommas(x.c))]
      [] x.t = "chars" ->
           LET back == YamlDoubleQuoted(EscapeQuotes(x.c))
           IN IF back.ok THEN [ok |-> TRUE, v |-> Chars(back.v)]
              ELSE [ok |-> FALSE, v |-> Undefined]
      [] x.t = "date" -> [ok |-> TRUE, v |-> DateOf(DateOnly(x.n))]
      [] OTHER -> [ok |-> TRUE, v |-> x]

\* The file the edit and reorder handlers write for a front matter and body.
RewrittenFile(metadata, body) ==
    IF \A k \in Keys : Rewritten(metadata[k]).ok
      THEN Markdown([k \in Keys |-> Rewritten(metadata[k]).v], body)
      ELSE BadFile

\* The file handler_adminCreatePost writes.
CreatedFile(title, type, body, clock) ==
    IF YamlDoubleQuoted(title).ok
      THEN Markdown(
             [NoKeys EXCEPT
                !["title"] = Chars(YamlDoubleQuoted(title).v),
                !["date"] = DateOf(DateOnly(clock)),
                !["type"] = Str(type),
                !["order"] = IF type = "blog" THEN Num(clock) ELSE Undefined,
                !["published"] = Bool(TRUE)],
             body)
      ELSE BadFile

BlankBodies == {"", " "}

IsString(x) == x.t \in {"str", "chars"}

\* content.trim().length === 0: a text without a front matter block is
\* its body, so it is blank when that body is.
IsBlankContent(text) ==
    text.parses /\ text.data = NoKeys /\ text.body \in BlankBodies

\* MarkdownHandler.validate: the errors of a file text.  The first two
\* checks return at once; md.render throws for no string.
Validate(text) ==
    IF IsBlankContent(text) THEN <<"Content is empty">>
    ELSE IF ~text.parses THEN <<"Invalid front matter YAML">>
    ELSE (IF text.data = NoKeys
            THEN <<"Front matter is missing or empty">> ELSE <<>>)
      \o (IF ~Truthy(text.data["title"]) \/ ~IsString(text.data["title"])
            THEN <<"Front matter must include a title field">> ELSE <<>>)
      \o (IF text.data["type"] \notin {Str("blog"), Str("page")}
            THEN <<"Front matter must include a type field">> ELSE <<>>)
      \o (IF text.body \in BlankBodies
            THEN <<"Markdown content is empty">> ELSE <<>>)

(***************************************************************************)
(* Bounds of the model.                                                    *)
(***************************************************************************)
\* Events of the environment (direct file changes and HTTP requests).
MaxEnv == 2

\* Items of one reorder request.
MaxBatch == 2

\* Reindex operations in flight at once.
MaxTasks == 2

\* Ticks of the clock after startup.
MaxNow == 2

(***************************************************************************)
(* The texts that direct edits put on disk.                                *)
(***************************************************************************)
Hello == <<"H", "e", "l", "l", "o">>

FullPost ==
    [NoKeys EXCEPT !["title"] = Chars(Hello), !["date"] = DateOf(0),
                   !["type"] = Str("blog"), !["order"] = Num(1),
                   !["published"] = Bool(TRUE),
                   !["tags"] = List(<<"n", "e">>)]

Draft ==
    [NoKeys EXCEPT !["title"] = Chars(<<"d">>), !["published"] = Bool(FALSE)]

ExtTexts == {BadFile, Markdown(FullPost, "text"), Markdown(Draft, "text")}

\* What a path holds when the server starts.
InitTexts == {NoFile, BadFile, Markdown(FullPost, "text")}

Dirs == {"blog", "pages"}

\* The type each scanned directory passes to _indexFile.
DirType(dir) == IF dir = "blog" THEN Str("blog") ELSE Str("page")

VARIABLES
    disk,       \* the text of every path (NoFile when the file does not exist)
    dirExists,  \* whether content/blog and content/pages exist
    index,      \* ContentIndexer.index, in insertion order
    now,        \* the clock read by new Date() and Date.now()
    pc,         \* the server's position in startServer and its lifetime
    scanFiles,  \* readdir's result not yet indexed by _scanDirectory
    watching,   \* ContentIndexer.watcher is set
    pending,    \* per path, the raw watcher event waiting for the file to settle
    tasks,      \* reindex operations whose file read is done, index write not
    budget,     \* environment changes left
    response,   \* what the last step answered: a request's response, or
                \* what a watcher handler was given
    request,    \* the admin request whose session has been loaded
    sessionFiles, \* the session ids with a file in sessionDir, oldest first
    sessionSets, \* the calls of fileStore.set under way
    writes      \* admin handlers past their checks, their writeFile pending

vars ==
    <<disk, dirExists, index, now, pc, scanFiles, watching, pending, tasks,
      budget, response, request, sessionFiles, sessionSets, writes>>

NoResponse == [handler |-> "none"]

NoRequest == [route |-> "none"]

Init ==
    /\ dirExists \in [Dirs -> BOOLEAN]
    /\ disk \in [Paths -> InitTexts]
    /\ \A p \in Paths : ~dirExists[p.dir] => disk[p] = NoFile
    /\ index = <<>>
    /\ now = 1
    /\ pc = "scan_blog"
    /\ scanFiles = <<>>
    /\ watching = FALSE
    /\ pending = [p \in Paths |-> "none"]
    /\ tasks = {}
    /\ budget = MaxEnv
    /\ response = NoResponse
    /\ request = NoRequest
    /\ sessionFiles = <<>>
    /\ sessionSets = {}
    /\ writes = {}

(***************************************************************************)
(* ContentIndexer._indexFile once the file has been read: parse, build     *)
(* the item and set it; a failure is logged and leaves the index alone.    *)
(***************************************************************************)
\* An _indexFile that drops the record of the file's slug when the file
\* cannot be read or parsed.
IndexFileOrDrop(idx, filePath, type, text, clock) ==
    IF ParseThrows(text)
      THEN SelectSeq(idx, LAMBDA item : item.slug # SlugOf(filePath))
      ELSE IndexSet(idx, ContentItem(filePath, type, ParsedMetadata(text), clock))

IndexFile(idx, filePath, type, text, clock) ==
    IF ParseThrows(text) THEN idx
    ELSE IndexSet(idx, ContentItem(filePath, type, ParsedMetadata(text), clock))

\* The clock as `new Date()` may read it: time does not run backwards and
\* is followed up to MaxNow.
Clock == now..MaxNow

\* What the clock may show once _indexFile is done with a text: new Date()
\* is called only for a parsed text without a date.
ClockReads(text) ==
    IF ParseThrows(text) \/ Truthy(ParsedMetadata(text)["date"])
      THEN {now} ELSE Clock

\* A removal by position that does not test whether the slug was found
\* (splice(indexOf(slug), 1)): an absent slug takes the last item away.
RemoveAtIndexOf(idx, filePath) ==
    IF IndexHas(idx, SlugOf(filePath)) THEN IndexDelete(idx, SlugOf(filePath))
    ELSE SubSeq(idx, 1, Len(idx) - 1)

\* ContentIndexer.removeFromIndex
RemoveFromIndex(idx, filePath) == IndexDelete(idx, SlugOf(filePath))

\* The orders in which readdir may list the files of a directory.
Listings(dir) ==
    LET files == {p \in Paths : p.dir = dir /\ disk[p].exists}
    IN {l \in UNION {[1..n -> files] : n \in {Cardinality(files)}} :
          \A i, j \in DOMAIN l : i # j => l[i] # l[j]}

(***************************************************************************)
(* startServer: initialize() scans blog, then pages; then startWatching(). *)
(***************************************************************************)
\* _scanDirectory up to its loop: fs.access, then fs.readdir.
ScanDirectory(dir) ==
    /\ pc = "scan_" \o dir
    /\ IF dirExists[dir]
         THEN /\ \E l \in Listings(dir) : scanFiles' = l
              /\ pc' = "index_" \o dir
         ELSE /\ scanFiles' = <<>>
              /\ pc' = IF dir = "blog" THEN "scan_pages" ELSE "start_watching"
    /\ UNCHANGED <<disk, dirExists, writes, request, sessionFiles,
                 sessionSets, index, now, watching, pending, tasks, budget,
                   response>>

\* A loop whose try/catch is around the whole scan: the first file that
\* fails ends the scan of the directory.
ScanStopsAtFailure(dir) ==
    /\ pc = "index_" \o dir
    /\ scanFiles # <<>>
    /\ now' \in ClockReads(disk[Head(scanFiles)])
    /\ index' = IndexFile(index, Head(scanFiles), DirType(dir),
                          disk[Head(scanFiles)], now')
    /\ scanFiles' = IF ParseThrows(disk[Head(scanFiles)]) THEN <<>>
                    ELSE Tail(scanFiles)
    /\ UNCHANGED <<disk, dirExists, writes, request, sessionFiles,
                 sessionSets, pc, watching, pending, tasks, budget,
                   response>>

\* One turn of _scanDirectory's loop: await this._indexFile(filePath, type).
ScanIndexFile(dir) ==
    /\ pc = "index_" \o dir
    /\ scanFiles # <<>>
    /\ now' \in ClockReads(disk[Head(scanFiles)])
    /\ index' = IndexFile(index, Head(scanFiles), DirType(dir),
                          disk[Head(scanFiles)], now')
    /\ scanFiles' = Tail(scanFiles)
    /\ UNCHANGED <<disk, dirExists, writes, request, sessionFiles,
                 sessionSets, pc, watching, pending, tasks, budget,
                   response>>

\* The loop of _scanDirectory ends.
ScanDone(dir) ==
    /\ pc = "index_" \o dir
    /\ scanFiles = <<>>
    /\ pc' = IF dir = "blog" THEN "scan_pages" ELSE "start_watching"
    /\ UNCHANGED <<disk, dirExists, writes, request, sessionFiles,
                 sessionSets, index, now, scanFiles, watching, pending,
                   tasks, budget, response>>

\* ContentIndexer.startWatching, then app.listen.
StartWatching ==
    /\ pc = "start_watching"
    /\ watching' = TRUE
    /\ pc' = "serving"
    /\ response' = NoResponse
    /\ UNCHANGED <<disk, dirExists, writes, request, sessionFiles,
                 sessionSets, index, now, scanFiles, pending, tasks, budget>>

\* SIGINT or SIGTERM: stopWatching(), then process.exit(0).  The process
\* and its memory are gone; only the files stay.
Shutdown ==
    /\ pc = "serving"
    /\ watching' = FALSE
    /\ pending' = [p \in Paths |-> "none"]
    /\ tasks' = {}
    /\ index' = <<>>
    /\ pc' = "stopped"
    /\ response' = NoResponse
    /\ UNCHANGED <<disk, dirExists, writes, request, sessionFiles,
                 sessionSets, now, scanFiles, budget>>

(***************************************************************************)
(* The watcher (chokidar with ignoreInitial and awaitWriteFinish): a raw   *)
(* event waits until the file has been quiet for the stability threshold;  *)
(* further raw events on the path while it waits fold into it.             *)
(***************************************************************************)
\* The raw event that a write of path p folds into what is waiting.
AfterWrite(was, existed) ==
    CASE was = "add" -> "add"
      [] was = "change" -> "change"
      [] was = "unlink" -> "change"
      [] OTHER -> IF existed THEN "change" ELSE "add"

\* The raw event that a removal of path p folds into what is waiting.
AfterUnlink(was) == IF was = "add" THEN "none" ELSE "unlink"

\* What waits in the watcher once path p has been written.
WriteNoted(waiting, p, existed) ==
    IF watching
      THEN [waiting EXCEPT ![p] = AfterWrite(waiting[p], existed)]
      ELSE waiting

\* What waits in the watcher once path p has been removed.
UnlinkNoted(waiting, p) ==
    IF watching
      THEN [waiting EXCEPT ![p] = AfterUnlink(waiting[p])]
      ELSE waiting

\* A watcher without awaitWriteFinish: every write of a file calls the
\* handler at once.
ExtWriteUnsettled(p, text) ==
    /\ pc \in {"start_watching", "serving"}
    /\ budget > 0
    /\ dirExists[p.dir]
    /\ disk[p] # text
    /\ disk' = [disk EXCEPT ![p] = text]
    /\ tasks' = IF watching
                  THEN tasks \cup {[filePath |-> p,
                                    type |-> IF p.dir = "blog" THEN Str("blog")
                                             ELSE Str("page"),
                                    text |-> text]}
                  ELSE tasks
    /\ budget' = budget - 1
    /\ response' = [handler |-> "write", filePath |-> p,
                    waiting |-> pending[p]]
    /\ UNCHANGED <<dirExists, writes, request, sessionFiles,
                 sessionSets, index, now, pc, scanFiles, watching, pending>>

\* A file is written directly on disk.  An edit made while initialize()
\* scans is the same to the scan as one made before it (Init) or after it.
\* The response keeps what waited in the watcher for the path.
ExtWrite(p, text) ==
    /\ pc \in {"start_watching", "serving"}
    /\ budget > 0
    /\ dirExists[p.dir]
    /\ disk[p] # text
    /\ disk' = [disk EXCEPT ![p] = text]
    /\ pending' = WriteNoted(pending, p, disk[p].exists)
    /\ budget' = budget - 1
    /\ response' = [handler |-> "write", filePath |-> p,
                    waiting |-> pending[p]]
    /\ UNCHANGED <<dirExists, writes, request, sessionFiles,
                 sessionSets, index, now, pc, scanFiles, watching, tasks>>

\* A file is removed directly on disk.
ExtDelete(p) ==
    /\ pc \in {"start_watching", "serving"}
    /\ budget > 0
    /\ disk[p].exists
    /\ disk' = [disk EXCEPT ![p] = NoFile]
    /\ pending' = UnlinkNoted(pending, p)
    /\ budget' = budget - 1
    /\ response' = NoResponse
    /\ UNCHANGED <<dirExists, writes, request, sessionFiles,
                 sessionSets, index, now, pc, scanFiles, watching, tasks>>

\* reindex's type for a file of an indexer constructed with the content
\* path root: filePath.includes('/blog/') ? 'blog' : 'page'.  The path is
\* path.join(root, dir, name), a sequence of segments after an optional
\* leading slash; '/blog/' is in it when a segment that is not the last is
\* "blog" and a slash precedes it.
ReindexTypeAt(root, p) ==
    LET segments == root.segments \o <<p.dir, p.name>>
    IN IF \E i \in 1..(Len(segments) - 1) :
             segments[i] = "blog" /\ (i > 1 \/ root.absolute)
         THEN Str("blog")
         ELSE Str("page")

\* reindex's type under config.contentPath, './content'.
ReindexType(p) ==
    ReindexTypeAt([absolute |-> FALSE, segments |-> <<"content">>], p)

\* What the scan and a later reindex pass to _indexFile as the type of the
\* same file, for an indexer constructed with the content path root.
ReindexTypeOf(root, p) ==
    /\ pc = "constructed"
    /\ response = NoResponse
    /\ response' = [handler |-> "kind", root |-> root, filePath |-> p,
                    scanned |-> DirType(p.dir),
                    reindexed |-> ReindexTypeAt(root, p)]
    /\ UNCHANGED <<disk, dirExists, writes, request, sessionFiles, sessionSets, index,
                   now, pc, scanFiles, watching, pending, tasks, budget>>

\* The 'add' or 'change' handler runs: reindex(filePath) calls _indexFile,
\* whose parseFile reads the file; the rest waits for the read to complete.
WatcherAddChange(p) ==
    /\ watching
    /\ pending[p] \in {"add", "change"}
    /\ Cardinality(tasks) < MaxTasks
    /\ pending' = [pending EXCEPT ![p] = "none"]
    /\ tasks' = tasks \cup {[filePath |-> p, type |-> ReindexType(p),
                             text |-> disk[p]]}
    /\ response' = NoResponse
    /\ UNCHANGED <<disk, dirExists, writes, request, sessionFiles,
                 sessionSets, index, now, pc, scanFiles, watching, budget>>

\* The read of a reindex completes: _indexFile parses and sets the item.
ReindexComplete(task) ==
    /\ task \in tasks
    /\ now' \in ClockReads(task.text)
    /\ index' = IndexFile(index, task.filePath, task.type, task.text, now')
    /\ tasks' = tasks \ {task}
    /\ response' = [handler |-> "reindex", filePath |-> task.filePath,
                    text |-> task.text, before |-> index]
    /\ UNCHANGED <<disk, dirExists, writes, request, sessionFiles,
                 sessionSets, pc, scanFiles, watching, pending, budget>>

\* An 'unlink' handler that leaves the index alone.
WatcherUnlinkIgnored(p) ==
    /\ watching
    /\ pending[p] = "unlink"
    /\ pending' = [pending EXCEPT ![p] = "none"]
    /\ response' = [handler |-> "unlink", filePath |-> p, before |-> index]
    /\ UNCHANGED <<disk, dirExists, writes, request, sessionFiles,
                 sessionSets, index, now, pc, scanFiles, watching, tasks,
                   budget>>

\* The 'unlink' handler runs: removeFromIndex(filePath).
WatcherUnlink(p) ==
    /\ watching
    /\ pending[p] = "unlink"
    /\ pending' = [pending EXCEPT ![p] = "none"]
    /\ index' = RemoveFromIndex(index, p)
    /\ response' = [handler |-> "unlink", filePath |-> p, before |-> index]
    /\ UNCHANGED <<disk, dirExists, writes, request, sessionFiles,
                 sessionSets, now, pc, scanFiles, watching, tasks, budget>>

(***************************************************************************)
(* Public request handlers (server.js).                                    *)
(***************************************************************************)
Slugs == {SlugOf(p) : p \in Paths} \cup {<<"x">>}

\* handler_page and handler_blogPost: the item of the slug must be of the
\* handler's kind; its file is parsed again and rendered.
Rendered(handler, kind, slug) ==
    LET item == GetBySlug(index, slug)
    IN IF ~Found(item) \/ item.type # Str(kind)
         THEN [handler |-> handler, slug |-> slug, status |-> 404,
               item |-> NotFound, title |-> Undefined, body |-> ""]
       ELSE IF ParseThrows(disk[item.filePath])
         THEN [handler |-> handler, slug |-> slug, status |-> 500,
               item |-> NotFound, title |-> Undefined, body |-> ""]
       ELSE [handler |-> handler, slug |-> slug, status |-> 200,
             item |-> item,
             title |-> JsOr(ParsedMetadata(disk[item.filePath])["title"],
                            item.title),
             body |-> ParsedContent(disk[item.filePath])]

\* GET /page/:slug
Page(slug) ==
    /\ pc = "serving"
    /\ budget > 0
    /\ response' = Rendered("page", "page", slug)
    /\ budget' = budget - 1
    /\ UNCHANGED <<disk, dirExists, writes, request, sessionFiles,
                 sessionSets, index, now, pc, scanFiles, watching,
                   pending, tasks>>

\* GET /blog/:slug
BlogPost(slug) ==
    /\ pc = "serving"
    /\ budget > 0
    /\ response' = Rendered("blogPost", "blog", slug)
    /\ budget' = budget - 1
    /\ UNCHANGED <<disk, dirExists, writes, request, sessionFiles,
                 sessionSets, index, now, pc, scanFiles, watching,
                   pending, tasks>>

\* GET /: handler_home renders the blog list and the page menu.
Home ==
    /\ pc = "serving"
    /\ budget > 0
    /\ response' = [handler |-> "home", entries |-> GetBlogEntries(index),
                    pages |-> GetPages(index)]
    /\ budget' = budget - 1
    /\ UNCHANGED <<disk, dirExists, writes, request, sessionFiles,
                 sessionSets, index, now, pc, scanFiles, watching,
                   pending, tasks>>

(***************************************************************************)
(* Admin request handlers (server.js), past requireAuth and the CSRF       *)
(* check.                                                                  *)
(***************************************************************************)
Titles == {Hello, <<"!">>}

Types == {"blog", "page"}

\* A body, and a body of white space, which is a field that is filled in
\* (`!content` is false) and a markdown content that is empty.
Bodies == {"text", " "}

\* A create handler that writes the file before it looks at the result of
\* validate.
AdminCreateUnvalidated(title, type, body) ==
    /\ pc = "serving"
    /\ budget > 0
    /\ now' \in Clock
    /\ LET p == CreatePath(title, type)
           text == CreatedFile(title, type, body, now')
           checked == /\ TitleSlug(title) # <<>>
                      /\ IsPathInContentDirectory(p)
                      /\ ~disk[p].exists
           written == checked /\ dirExists[p.dir]
       IN /\ TitleSlug(title) # <<>> => p \in Paths
          /\ disk' = IF written THEN [disk EXCEPT ![p] = text] ELSE disk
          /\ pending' = IF written THEN WriteNoted(pending, p, FALSE)
                        ELSE pending
          /\ response' = [handler |-> "create",
                          ok |-> written /\ Validate(text) = <<>>,
                          filePath |-> p, text |-> text,
                          errors |-> IF checked THEN Validate(text) ELSE <<>>]
    /\ budget' = budget - 1
    /\ UNCHANGED <<dirExists, writes, request, sessionFiles,
                 sessionSets, index, pc, scanFiles, watching, tasks>>

\* handler_adminCreatePost
AdminCreate(title, type, body) ==
    /\ pc = "serving"
    /\ budget > 0
    /\ now' \in Clock
    /\ LET p == CreatePath(title, type)
           text == CreatedFile(title, type, body, now')
           checked == /\ TitleSlug(title) # <<>>
                      /\ IsPathInContentDirectory(p)
                      /\ ~disk[p].exists
           written == /\ checked
                      /\ Validate(text) = <<>>
                      /\ dirExists[p.dir]
       IN /\ TitleSlug(title) # <<>> => p \in Paths
          /\ disk' = IF written THEN [disk EXCEPT ![p] = text] ELSE disk
          /\ pending' = IF written THEN WriteNoted(pending, p, FALSE)
                        ELSE pending
          /\ response' = [handler |-> "create", ok |-> written,
                          filePath |-> p, text |-> text,
                          errors |-> IF checked THEN Validate(text) ELSE <<>>]
    /\ budget' = budget - 1
    /\ UNCHANGED <<dirExists, writes, request, sessionFiles,
                 sessionSets, index, pc, scanFiles, watching, tasks>>

\* handler_adminEditPost
AdminEdit(slug, title, type, body) ==
    /\ pc = "serving"
    /\ budget > 0
    /\ LET item == GetBySlug(index, slug)
           p == item.filePath
           text == RewrittenFile(
                     [ParsedMetadata(disk[p]) EXCEPT
                        !["title"] = Chars(title), !["type"] = Str(type)],
                     body)
           checked == /\ Found(item)
                      /\ IsPathInContentDirectory(p)
                      /\ ~ParseThrows(disk[p])
           written == checked /\ Validate(text) = <<>>
       IN /\ disk' = IF written THEN [disk EXCEPT ![p] = text] ELSE disk
          /\ pending' = IF written THEN WriteNoted(pending, p, TRUE)
                        ELSE pending
          /\ response' = [handler |-> "edit", ok |-> written, slug |-> slug,
                          filePath |-> p,
                          text |-> IF written THEN text ELSE NoFile,
                          errors |-> IF checked THEN Validate(text) ELSE <<>>]
    /\ budget' = budget - 1
    /\ UNCHANGED <<dirExists, writes, request, sessionFiles,
                 sessionSets, index, now, pc, scanFiles, watching, tasks>>

\* handler_adminDelete
AdminDelete(slug) ==
    /\ pc = "serving"
    /\ budget > 0
    /\ LET item == GetBySlug(index, slug)
           p == item.filePath
           status == IF ~Found(item) THEN 404
                     ELSE IF ~IsPathInContentDirectory(p) THEN 403
                     ELSE IF ~disk[p].exists THEN 500
                     ELSE 200
       IN /\ disk' = IF status = 200 THEN [disk EXCEPT ![p] = NoFile] ELSE disk
          /\ pending' = IF status = 200 THEN UnlinkNoted(pending, p)
                        ELSE pending
          /\ response' = [handler |-> "delete", ok |-> status = 200,
                          status |-> status, slug |-> slug, filePath |-> p]
    /\ budget' = budget - 1
    /\ UNCHANGED <<dirExists, writes, request, sessionFiles,
                 sessionSets, index, now, pc, scanFiles, watching, tasks>>

\* A batch in one try block: the first item that fails ends the batch, and
\* the items after it are reported as failed.
RECURSIVE ReorderedUntilFailure(_, _, _)
ReorderedUntilFailure(items, files, waiting) ==
    IF items = <<>>
      THEN [disk |-> files, pending |-> waiting, results |-> <<>>]
      ELSE LET item == GetBySlug(index, items[1].slug)
               p == item.filePath
               success == /\ Found(item)
                          /\ IsPathInContentDirectory(p)
                          /\ ~ParseThrows(files[p])
               text == RewrittenFile(
                         [ParsedMetadata(files[p]) EXCEPT
                            !["order"] = items[1].order],
                         ParsedContent(files[p]))
           IN IF success
                THEN LET rest == ReorderedUntilFailure(
                                   Tail(items), [files EXCEPT ![p] = text],
                                   WriteNoted(waiting, p, TRUE))
                     IN [rest EXCEPT
                           !.results = <<[slug |-> items[1].slug,
                                          success |-> TRUE]>> \o @]
                ELSE [disk |-> files, pending |-> waiting,
                      results |-> [i \in 1..Len(items) |->
                                     [slug |-> items[i].slug,
                                      success |-> FALSE]]]

\* The body of handler_adminReorder's items.map, item after item: the
\* files and watcher events after the batch, and the result of each item.
RECURSIVE Reordered(_, _, _)
Reordered(items, files, waiting) ==
    IF items = <<>>
      THEN [disk |-> files, pending |-> waiting, results |-> <<>>]
      ELSE LET item == GetBySlug(index, items[1].slug)
               p == item.filePath
               success == /\ Found(item)
                          /\ IsPathInContentDirectory(p)
                          /\ ~ParseThrows(files[p])
               text == RewrittenFile(
                         [ParsedMetadata(files[p]) EXCEPT
                            !["order"] = items[1].order],
                         ParsedContent(files[p]))
               rest == IF success
                         THEN Reordered(Tail(items),
                                        [files EXCEPT ![p] = text],
                                        WriteNoted(waiting, p, TRUE))
                         ELSE Reordered(Tail(items), files, waiting)
           IN [rest EXCEPT
                 !.results = <<[slug |-> items[1].slug,
                                success |-> success]>> \o @]

ReorderOrders == {Num(2)}

ReorderItems == [slug : Slugs, order : ReorderOrders]

ReorderBatches == UNION {[1..n -> ReorderItems] : n \in 1..MaxBatch}

\* What handler_adminReorder answers: 500 with the failed items as details,
\* or 200 with the number of items updated.
ReorderResponse(items, results) ==
    LET failures == SelectSeq(results, LAMBDA r : ~r.success)
    IN [handler |-> "reorder", items |-> items,
        ok |-> failures = <<>>,
        status |-> IF failures = <<>> THEN 200 ELSE 500,
        details |-> failures,
        updated |-> IF failures = <<>> THEN Len(results) ELSE 0]

\* handler_adminReorder
AdminReorder(items) ==
    /\ pc = "serving"
    /\ budget > 0
    /\ LET done == Reordered(items, disk, pending)
       IN /\ disk' = done.disk
          /\ pending' = done.pending
          /\ response' = ReorderResponse(items, done.results)
    /\ budget' = budget - 1
    /\ UNCHANGED <<dirExists, writes, request, sessionFiles,
                 sessionSets, index, now, pc, scanFiles, watching, tasks>>

Next ==
    \/ \E dir \in Dirs : ScanDirectory(dir) \/ ScanIndexFile(dir) \/ ScanDone(dir)
    \/ StartWatching
    \/ Shutdown
    \/ \E p \in Paths : \E text \in ExtTexts : ExtWrite(p, text)
    \/ \E p \in Paths : ExtDelete(p) \/ WatcherAddChange(p) \/ WatcherUnlink(p)
    \/ \E task \in tasks : ReindexComplete(task)
    \/ \E slug \in Slugs : Page(slug) \/ BlogPost(slug) \/ AdminDelete(slug)
    \/ Home
    \/ \E title \in Titles, type \in Types, body \in Bodies :
         AdminCreate(title, type, body)
    \/ \E slug \in Slugs, title \in Titles, type \in Types, body \in Bodies :
         AdminEdit(slug, title, type, body)
    \/ \E items \in ReorderBatches : AdminReorder(items)

Spec == Init /\ [][Next]_vars

(***************************************************************************)
(* A ContentIndexer of its own, as a caller of its methods sees it: files  *)
(* are upserted and removed one call at a time and the listings are read.  *)
(***************************************************************************)
QueryOrders == {Num(1), Num(3)}

\* Dates as YAML gives them: two days, and a text that is no date.
QueryDates == {DateOf(0), DateOf(TicksPerDay), Str("soon")}

\* Front matters with an order and a date; one is a draft, one is a page, one
\* has a type that is no kind of content, one an order that is no number.
QueryData ==
    {[NoKeys EXCEPT !["order"] = o, !["date"] = d] :
       o \in QueryOrders, d \in QueryDates}
    \cup {[NoKeys EXCEPT !["order"] = Num(1), !["date"] = DateOf(0),
                         !["published"] = Bool(FALSE)],
          [NoKeys EXCEPT !["order"] = Num(1), !["date"] = DateOf(0),
                         !["type"] = Str("page")],
          [NoKeys EXCEPT !["order"] = Num(1), !["date"] = DateOf(0),
                         !["type"] = Str("note")],
          [NoKeys EXCEPT !["order"] = Str("first"), !["date"] = DateOf(0)]}

\* new ContentIndexer(...): the constructor's empty Map, no watcher.
QueryInit ==
    /\ dirExists = [d \in Dirs |-> TRUE]
    /\ disk = [p \in Paths |-> NoFile]
    /\ index = <<>>
    /\ now = 1
    /\ pc = "constructed"
    /\ scanFiles = <<>>
    /\ watching = FALSE
    /\ pending = [p \in Paths |-> "none"]
    /\ tasks = {}
    /\ budget = 0
    /\ response = NoResponse
    /\ request = NoRequest
    /\ sessionFiles = <<>>
    /\ sessionSets = {}
    /\ writes = {}

\* await reindex(filePath), the file holding a text with front matter data.
QueryReindex(p, data) ==
    /\ pc = "constructed"
    /\ index' = IndexFile(index, p, ReindexType(p), Markdown(data, "text"), now)
    /\ response' = NoResponse
    /\ UNCHANGED <<disk, dirExists, writes, request, sessionFiles,
                 sessionSets, now, pc, scanFiles, watching, pending,
                   tasks, budget>>

\* removeFromIndex(filePath)
QueryRemove(p) ==
    /\ pc = "constructed"
    /\ index' = RemoveFromIndex(index, p)
    /\ response' = NoResponse
    /\ UNCHANGED <<disk, dirExists, writes, request, sessionFiles,
                 sessionSets, now, pc, scanFiles, watching, pending,
                   tasks, budget>>

\* getBlogEntries() and getPages()
QueryList ==
    /\ pc = "constructed"
    /\ response' = [handler |-> "list", entries |-> GetBlogEntries(index),
                    pages |-> GetPages(index)]
    /\ UNCHANGED <<disk, dirExists, writes, request, sessionFiles,
                 sessionSets, index, now, pc, scanFiles, watching,
                   pending, tasks, budget>>

\* The slugs asked for: those of the files, and strings that are the key of
\* no file (another case, the empty string, a longer and a foreign name).
QuerySlugs ==
    {SlugOf(p) : p \in QueryPaths} \cup {<<"A">>, <<>>, <<"a", "a">>, <<"x">>}

\* getBySlug(slug)
QueryGet(slug) ==
    /\ pc = "constructed"
    /\ response' = [handler |-> "get", slug |-> slug,
                    item |-> GetBySlug(index, slug)]
    /\ UNCHANGED <<disk, dirExists, writes, request, sessionFiles,
                 sessionSets, index, now, pc, scanFiles, watching,
                   pending, tasks, budget>>

QueryNext ==
    \/ \E p \in QueryPaths, data \in QueryData : QueryReindex(p, data)
    \/ \E p \in QueryPaths : QueryRemove(p)
    \/ QueryList
    \/ \E slug \in QuerySlugs : QueryGet(slug)

SpecQuery == QueryInit /\ [][QueryNext]_vars

(***************************************************************************)
(* Properties of the listings (SpecQuery).                                 *)
(***************************************************************************)
\* The records of a kind that the index holds as published.
PublishedOf(kind) ==
    {index[i] : i \in {j \in DOMAIN index :
                         index[j].type = Str(kind) /\ index[j].published}}

\* Item b is dated after item a.
DatedAfter(b, a) == b.date.t = "date" /\ a.date.t = "date" /\ b.date.n > a.date.n

\* A listing in ascending order, the newest first among equal orders.
OrderedListing(l) ==
    \A i, j \in DOMAIN l :
      i < j => /\ l[i].order.n <= l[j].order.n
               /\ l[i].order = l[j].order => ~DatedAfter(l[j], l[i])

\* C4: getBlogEntries() and getPages() return exactly the published records
\* of their kind, in ascending order of sortOrder and, among equal
\* sortOrders, the later publishedDate first.
C4_ListingsPublishedAndOrdered ==
    response.handler = "list" =>
      /\ {response.entries[i] : i \in DOMAIN response.entries}
           = PublishedOf("blog")
      /\ Len(response.entries) = Cardinality(PublishedOf("blog"))
      /\ {response.pages[i] : i \in DOMAIN response.pages}
           = PublishedOf("page")
      /\ Len(response.pages) = Cardinality(PublishedOf("page"))
      /\ OrderedListing(response.entries)
      /\ OrderedListing(response.pages)

\* The index holds three published blog entries, item 1 of a.md with order
\* 3, items 2 and 3 of b.md and c.md with order 1, each with a date, and
\* the listings have just been read.
ThreeListed ==
    /\ response.handler = "list"
    /\ Len(index) = 3
    /\ \A i \in DOMAIN index :
         /\ index[i].type = Str("blog") /\ index[i].published
         /\ index[i].date.t = "date"
         /\ index[i].order = IF index[i].slug = <<"a">> THEN Num(3) ELSE Num(1)

\* C5: with orders 3, 1, 1 and item 3 dated after item 2 the listing is
\* [item2, item3, item1]; it is [item3, item2, item1] only when item 3 is
\* not dated after item 2.
C5_OlderOfTheTieFirst ==
    ThreeListed =>
      LET item1 == GetBySlug(index, <<"a">>)
          item2 == GetBySlug(index, <<"b">>)
          item3 == GetBySlug(index, <<"c">>)
      IN /\ DatedAfter(item3, item2) =>
              response.entries = <<item2, item3, item1>>
         /\ response.entries = <<item3, item2, item1>> =>
              ~DatedAfter(item3, item2)

\* C5, as the comparator has it: with orders 3, 1, 1 the listing is
\* [item3, item2, item1] where item 3 is dated after item 2 and
\* [item2, item3, item1] where item 2 is dated after item 3; items 2 and 3
\* of one date come in the order the index holds them, before item 1.
C5_NewerOfTheTieFirst ==
    ThreeListed =>
      LET item1 == GetBySlug(index, <<"a">>)
          item2 == GetBySlug(index, <<"b">>)
          item3 == GetBySlug(index, <<"c">>)
      IN /\ DatedAfter(item3, item2) =>
              response.entries = <<item3, item2, item1>>
         /\ DatedAfter(item2, item3) =>
              response.entries = <<item2, item3, item1>>
         /\ item2.date = item3.date =>
              response.entries =
                IF IndexPos(index, <<"b">>) < IndexPos(index, <<"c">>)
                  THEN <<item2, item3, item1>>
                  ELSE <<item3, item2, item1>>

\* C5 witness: the three entries are listed and item 3 is dated after
\* item 2.
C5_ThreeListedThirdNewer ==
    /\ ThreeListed
    /\ DatedAfter(GetBySlug(index, <<"c">>), GetBySlug(index, <<"b">>))

(***************************************************************************)
(* Properties of the running server (Spec, WatcherSpec).                   *)
(***************************************************************************)
\* The records the index holds for path p.
RecordsOf(p) == {i \in DOMAIN index : index[i].filePath = p}

\* C1: whenever no scan, upsert, remove or watcher event is in flight, the
\* index holds exactly one record for every existing, parseable file and no
\* record for a path that does not exist or does not parse.
C1_IndexMirrorsFiles ==
    (pc = "serving" /\ tasks = {} /\ \A p \in Paths : pending[p] = "none") =>
        /\ \A p \in Paths :
             ~ParseThrows(disk[p]) => Cardinality(RecordsOf(p)) = 1
        /\ \A i \in DOMAIN index : ~ParseThrows(disk[index[i].filePath])

\* C2: once an admin create, edit, delete or reorder request has answered
\* success, the index already reflects the write: the created or edited
\* file's record is built from the text written, the deleted file has no
\* record, and every reordered item's record carries the requested order.
C2_AdminWriteInIndexAtResponse ==
    /\ (response.handler \in {"create", "edit"} /\ response.ok) =>
         LET item == GetBySlug(index, SlugOf(response.filePath))
         IN /\ item.filePath = response.filePath
            /\ item.metadata = ParsedMetadata(response.text)
    /\ (response.handler = "delete" /\ response.ok) =>
         RecordsOf(response.filePath) = {}
    /\ (response.handler = "reorder" /\ response.ok) =>
         \A i \in DOMAIN response.items :
           GetBySlug(index, response.items[i].slug).order
             = response.items[i].order

\* C6: a record whose front matter has published: false is in neither
\* getBlogEntries() nor getPages(), but is in the index and is what
\* getBySlug returns for its slug.
C6_UnpublishedListedNowhere ==
    \A i \in DOMAIN index :
      index[i].metadata["published"] = Bool(FALSE) =>
        /\ \A j \in DOMAIN GetBlogEntries(index) :
             GetBlogEntries(index)[j].slug # index[i].slug
        /\ \A j \in DOMAIN GetPages(index) :
             GetPages(index)[j].slug # index[i].slug
        /\ GetBySlug(index, index[i].slug) = index[i]

\* C6 witness: the index holds an unpublished record of a kind next to a
\* published record that the listing of that kind returns.
C6_UnpublishedBesideListed ==
    \E i, j \in DOMAIN index :
      /\ index[i].metadata["published"] = Bool(FALSE)
      /\ index[i].type = index[j].type
      /\ index[j].published
      /\ \E k \in DOMAIN (GetBlogEntries(index) \o GetPages(index)) :
           (GetBlogEntries(index) \o GetPages(index))[k] = index[j]

\* C7: no public handler renders an unpublished record: the home lists hold
\* published records only, and GET /blog/:slug or /page/:slug for the slug
\* of an unpublished record answers not-found.
C7_UnpublishedNeverRendered ==
    /\ (response.handler \in {"page", "blogPost"}
          /\ Found(GetBySlug(index, response.slug))
          /\ ~GetBySlug(index, response.slug).published) =>
         response.status = 404
    /\ response.handler = "home" =>
         \A i \in DOMAIN (response.entries \o response.pages) :
           (response.entries \o response.pages)[i].published

\* C8: removeFromIndex(path) called twice in a row: the first call leaves
\* no record under the path's slug, the second changes nothing, and neither
\* changes the record stored under any other slug.
C8_RemoveTwice ==
    response.handler = "unlink" =>
      LET slug == SlugOf(response.filePath)
          again == RemoveFromIndex(index, response.filePath)
      IN /\ ~IndexHas(index, slug)
         /\ again = index
         /\ \A s \in Slugs \ {slug} :
              /\ GetBySlug(index, s) = GetBySlug(response.before, s)
              /\ GetBySlug(again, s) = GetBySlug(response.before, s)

\* C8 witness: the unlink handler has removed a record while a record of
\* another slug was in the index.
C8_RemovedBesideAnother ==
    /\ response.handler = "unlink"
    /\ IndexHas(response.before, SlugOf(response.filePath))
    /\ index # <<>>

\* C9: a successful upsert leaves under the path's slug the record built
\* from the text just read and nothing else: a key the text does not have
\* is absent from the record's rawMetadata, and every typed field is the
\* text's value or the default, whatever the replaced record held.
C9_UpsertReplacesRecord ==
    (response.handler = "reindex" /\ ~ParseThrows(response.text)) =>
      LET p == response.filePath
          data == ParsedMetadata(response.text)
          item == GetBySlug(index, SlugOf(p))
      IN /\ item.filePath = p
         /\ \A k \in Keys : item.metadata[k] = data[k]
         /\ item.title = IF data["title"] = Undefined THEN Chars(Basename(p))
                         ELSE data["title"]
         /\ item.order = IF data["order"] = Undefined THEN Num(0)
                         ELSE data["order"]
         /\ item.type = IF data["type"] = Undefined THEN ReindexType(p)
                        ELSE data["type"]
         /\ item.published = (data["published"] # Bool(FALSE))
         /\ item.date = IF data["date"] = Undefined THEN DateOf(now)
                        ELSE NewDate(data["date"])

\* C9 witness: an upsert has replaced a record that had an order, a date
\* and tags by the record of a text that has none of the three.
C9_KeysDropped ==
    /\ response.handler = "reindex"
    /\ ~ParseThrows(response.text)
    /\ LET old == GetBySlug(response.before, SlugOf(response.filePath))
       IN /\ Found(old)
          /\ \A k \in {"order", "date", "tags"} :
               /\ old.metadata[k] # Undefined
               /\ ParsedMetadata(response.text)[k] = Undefined

\* C10: when initialize() returns, every parseable file has been indexed:
\* its slug holds its record, or the record of a parseable pages file of
\* the same slug indexed after it; no record is of a file that cannot be
\* read or parsed, whatever else the directories hold or lack.
C10_ScanIndexesEveryParseableFile ==
    (pc = "start_watching" /\ budget = MaxEnv) =>
        /\ \A p \in Paths :
             ~ParseThrows(disk[p]) =>
               \/ RecordsOf(p) # {}
               \/ \E q \in Paths :
                    /\ q # p /\ q.dir = "pages" /\ SlugOf(q) = SlugOf(p)
                    /\ ~ParseThrows(disk[q])
                    /\ RecordsOf(q) # {}
        /\ \A i \in DOMAIN index : ~ParseThrows(disk[index[i].filePath])

\* C10 witness: initialize() has returned with the blog directory missing
\* and, in pages, an unparseable file next to a parseable one it indexed.
C10_ScannedPastFailures ==
    /\ pc = "start_watching" /\ budget = MaxEnv
    /\ ~dirExists["blog"]
    /\ \E p, q \in Paths :
         /\ p.dir = "pages" /\ q.dir = "pages"
         /\ disk[p].exists /\ ParseThrows(disk[p])
         /\ RecordsOf(q) # {}

(***************************************************************************)
(* The server with its watcher and direct edits of the content files only  *)
(* (WatcherSpec), and the same under the scheduling Node gives: a watcher  *)
(* event whose file has settled is delivered, and a started file read      *)
(* completes (FairSpec).                                                   *)
(***************************************************************************)
\* ContentIndexer.stopWatching, the process going on: chokidar's close()
\* emits nothing any more, so what waited for its file to settle is
\* dropped; the reindex calls whose file read is under way are nobody's to
\* await and stay in flight.
StopWatching ==
    /\ pc = "serving"
    /\ watching
    /\ watching' = FALSE
    /\ pending' = [p \in Paths |-> "none"]
    /\ pc' = "watcher_closed"
    /\ response' = NoResponse
    /\ UNCHANGED <<disk, dirExists, writes, request, sessionFiles,
                 sessionSets, index, now, scanFiles, tasks, budget>>

WatcherNext ==
    \/ \E dir \in Dirs : ScanDirectory(dir) \/ ScanIndexFile(dir) \/ ScanDone(dir)
    \/ StartWatching
    \/ Shutdown
    \/ StopWatching
    \/ \E p \in Paths : \E text \in ExtTexts : ExtWrite(p, text)
    \/ \E p \in Paths : ExtDelete(p) \/ WatcherAddChange(p) \/ WatcherUnlink(p)
    \/ \E task \in tasks : ReindexComplete(task)

WatcherSpec == Init /\ [][WatcherNext]_vars

\* A callback of the watcher or of a file read that is ready to run.
Delivery ==
    \/ \E p \in Paths : WatcherAddChange(p) \/ WatcherUnlink(p)
    \/ \E task \in tasks : ReindexComplete(task)

\* The event loop runs some ready callback as long as there is one.
FairSpec == WatcherSpec /\ WF_vars(Delivery)

\* C3: with the watcher running, a valid file written directly under the
\* blog directory is, once its write has settled, eventually what getBySlug
\* returns for its slug, with the title of its front matter; and once the
\* file has been deleted, getBySlug for its slug eventually returns
\* not-found.  A further write or deletion of the file, or the watcher
\* being stopped, ends the obligation.
C3_DirectEditsReachTheIndex ==
    \A p \in {q \in Paths : q.dir = "blog"} :
      /\ \A text \in {t \in ExtTexts : ~ParseThrows(t)} :
           (watching /\ disk[p] = text /\ pending[p] \in {"add", "change"})
             ~> \/ ~watching
                \/ disk[p] # text
                \/ /\ GetBySlug(index, SlugOf(p)).filePath = p
                   /\ GetBySlug(index, SlugOf(p)).title
                        = ParsedMetadata(text)["title"]
      /\ (watching /\ ~disk[p].exists /\ pending[p] = "unlink"
            /\ RecordsOf(p) # {})
           ~> \/ ~watching
              \/ disk[p].exists
              \/ ~Found(GetBySlug(index, SlugOf(p)))

\* C3 witness: the watcher has upserted a blog file written directly while
\* it ran; the slug had no record before and now returns the file's title.
C3_DirectWriteIndexed ==
    /\ watching
    /\ response.handler = "reindex"
    /\ response.filePath.dir = "blog"
    /\ budget < MaxEnv
    /\ disk[response.filePath] = response.text
    /\ ~ParseThrows(response.text)
    /\ ~IndexHas(response.before, SlugOf(response.filePath))
    /\ GetBySlug(index, SlugOf(response.filePath)).title
         = ParsedMetadata(response.text)["title"]

(***************************************************************************)
(* A ContentIndexer whose initialize() is called again between direct      *)
(* edits of the files, the watcher not started (SpecRescan).               *)
(***************************************************************************)
\* await initialize(), once more: the try block goes straight to the scans.
InitializeAgain ==
    /\ pc = "start_watching"
    /\ budget > 0
    /\ pc' = "scan_blog"
    /\ budget' = budget - 1
    /\ response' = [handler |-> "initialize", before |-> index]
    /\ UNCHANGED <<disk, dirExists, writes, request, sessionFiles,
                 sessionSets, index, now, scanFiles, watching, pending,
                   tasks>>

RescanNext ==
    \/ \E dir \in Dirs : ScanDirectory(dir) \/ ScanIndexFile(dir) \/ ScanDone(dir)
    \/ \E p \in Paths : \E text \in ExtTexts : ExtWrite(p, text)
    \/ \E p \in Paths : ExtDelete(p)
    \/ InitializeAgain

SpecRescan == Init /\ [][RescanNext]_vars

\* C11: initialize() clears the index before it scans: when it has
\* completed, every record is one this scan produced, so no record is left
\* of a file that is no longer on disk (or no longer parses).
C11_InitializeLeavesOnlyScanned ==
    (pc = "start_watching" /\ response.handler = "initialize") =>
      \A i \in DOMAIN index :
        /\ ~ParseThrows(disk[index[i].filePath])
        /\ index[i].metadata = ParsedMetadata(disk[index[i].filePath])

(***************************************************************************)
(* _generateSlug on its own (SpecSlug): file names made of up to two date  *)
(* prefixes, or a prefix that is no date, and a short remainder.           *)
(***************************************************************************)
MaxName == 4

DatePrefix == <<"2", "0", "2", "5", "-", "0", "1", "-", "0", "1", "-">>

\* A month of one digit: no match of \d{2}.
NoDatePrefix == <<"2", "0", "2", "5", "-", "1", "-", "0", "1", "-">>

NameChars == {"a", "B", "7", "-", " "}

SlugInputs ==
    {prefix \o rest :
       prefix \in {<<>>, DatePrefix, DatePrefix \o DatePrefix, NoDatePrefix},
       rest \in UNION {[1..n -> NameChars] : n \in 0..MaxName}}

\* this._generateSlug(filename), of one file name in a run.
GenerateSlugOf(filename) ==
    /\ pc = "constructed"
    /\ response = NoResponse
    /\ response' = [handler |-> "slug", filename |-> filename,
                    slug |-> GenerateSlug(filename)]
    /\ UNCHANGED <<disk, dirExists, writes, request, sessionFiles,
                 sessionSets, index, now, pc, scanFiles, watching,
                   pending, tasks, budget>>

\* this._generateSlug(slug), the slug being the one just generated.
GenerateSlugAgain ==
    /\ pc = "constructed"
    /\ response.handler = "slug"
    /\ response' = [handler |-> "slug_again", filename |-> response.filename,
                    first |-> response.slug,
                    slug |-> GenerateSlug(response.slug)]
    /\ UNCHANGED <<disk, dirExists, writes, request, sessionFiles,
                 sessionSets, index, now, pc, scanFiles, watching,
                   pending, tasks, budget>>

\* handler_adminCreatePost up to its path check, for a title of letters,
\* dots, separators and spaces: the slug of the title, the file name, the
\* path, and whether the request goes on to the file system.
CreatePathOf(title, type) ==
    /\ pc = "constructed"
    /\ response = NoResponse
    /\ response' = [handler |-> "path", title |-> title, type |-> type,
                    filePath |-> CreatePath(title, type),
                    accepted |-> /\ TitleSlug(title) # <<>>
                                /\ IsPathInContentDirectory(
                                     CreatePath(title, type))]
    /\ UNCHANGED <<disk, dirExists, writes, request, sessionFiles,
                 sessionSets, index, now, pc, scanFiles, watching,
                   pending, tasks, budget>>

(***************************************************************************)
(* Static assets.  A path is the sequence of its segments, each segment    *)
(* the sequence of its characters, after a leading slash when absolute.    *)
(***************************************************************************)

\* The longest asset path asked for, in segments.
MaxSegments == 3

\* path.resolve's normalisation of the segments left to read onto the
\* segments resolved so far: ".." drops the last one, if any.
RECURSIVE PathResolve(_, _)
PathResolve(segments, resolved) ==
    IF segments = <<>> THEN resolved
    ELSE IF Head(segments) = <<".", ".">>
      THEN PathResolve(Tail(segments),
                       IF resolved = <<>> THEN <<>>
                       ELSE SubSeq(resolved, 1, Len(resolved) - 1))
      ELSE PathResolve(Tail(segments), Append(resolved, Head(segments)))

\* validateFilePath(userPath, baseDir), baseDir being absolute: the text of
\* the resolved path starts with the text of the resolved base, and the
\* text of userPath holds neither ".." nor "~".
ValidateFilePath(userPath, baseDir) ==
    LET resolvedPath ==
            PathResolve(IF userPath.absolute THEN userPath.segments
                        ELSE baseDir \o userPath.segments, <<>>)
        n == Len(baseDir)
        startsWith ==
            /\ Len(resolvedPath) >= n
            /\ SubSeq(resolvedPath, 1, n - 1) = SubSeq(baseDir, 1, n - 1)
            /\ Len(resolvedPath[n]) >= Len(baseDir[n])
            /\ SubSeq(resolvedPath[n], 1, Len(baseDir[n])) = baseDir[n]
        suspicious ==
            \E i \in 1..Len(userPath.segments) :
                LET segment == userPath.segments[i]
                IN \/ \E j \in 1..Len(segment) : segment[j] = "~"
                   \/ \E j \in 1..(Len(segment) - 1) :
                         segment[j] = "." /\ segment[j + 1] = "."
    IN [valid |-> startsWith /\ ~suspicious, sanitizedPath |-> resolvedPath]

\* handler_static and handler_adminStatic: the asset path is validated
\* against the handler's base directory; a valid one is sent, the others
\* are answered 403.
StaticAsset(baseDir, userPath) ==
    /\ pc = "constructed"
    /\ response = NoResponse
    /\ response' = [handler |-> "static", baseDir |-> baseDir,
                    userPath |-> userPath,
                    status |-> IF ValidateFilePath(userPath, baseDir).valid
                                 THEN 200 ELSE 403,
                    sent |-> ValidateFilePath(userPath, baseDir).sanitizedPath]
    /\ UNCHANGED <<disk, dirExists, writes, request, sessionFiles,
                   sessionSets, index, now, pc, scanFiles, watching, pending,
                   tasks, budget>>

SlugNext ==
    \/ \E filename \in SlugInputs : GenerateSlugOf(filename)
    \/ GenerateSlugAgain
    \/ \E type \in Types :
         \E title \in UNION {[1..n -> {"a", "B", ".", "/", "\\", " "}] :
                               n \in 0..MaxName} :
           CreatePathOf(title, type)
    \/ \E p \in Paths :
         \E root \in [absolute : BOOLEAN,
                      segments : {<<>>, <<"content">>, <<"blog">>,
                                  <<"srv", "blog", "site">>}] :
           ReindexTypeOf(root, p)
    \/ \E absolute \in BOOLEAN :
         \E segments \in UNION {[1..n -> {<<"t">>, <<"d">>, <<"d", "x">>,
                                          <<".", ".">>, <<"~">>, <<"a">>}] :
                                  n \in 0..MaxSegments} :
           StaticAsset(<<<<"t">>, <<"d">>>>,
                       [absolute |-> absolute, segments |-> segments])

SpecSlug == QueryInit /\ [][SlugNext]_vars

\* C12: the slug function is idempotent, slug(slug(x)) = slug(x), also for
\* a file name whose remainder after the stripped date prefix begins with a
\* date prefix of its own.
C12_SlugIdempotent ==
    response.handler = "slug_again" => response.slug = response.first

\* The characters of s that a slug keeps as they are.
KeptChars(s) == SelectSeq(s, IsSlugChar)

\* The places of s where a run of other characters starts after a kept
\* character and is followed, somewhere, by a kept character.
InnerRuns(s) ==
    {i \in 1..Len(s) - 1 :
       /\ IsSlugChar(s[i]) /\ ~IsSlugChar(s[i + 1])
       /\ \E j \in i + 2..Len(s) : IsSlugChar(s[j])}

\* C13: the slug of a file name is the name without one leading date
\* prefix, in lower case, with every maximal run of characters outside
\* [a-z0-9] replaced by one hyphen and the hyphens at both ends removed:
\* it keeps the [a-z0-9] characters in order, has one hyphen for every run
\* between two of them, and has no leading, trailing or doubled hyphen.
C13_SlugForm ==
    response.handler = "slug" =>
      LET slug == response.slug
          name == response.filename
          lower == ToLowerCase(IF HasDatePrefix(name)
                                 THEN SubSeq(name, 12, Len(name)) ELSE name)
      IN /\ \A i \in DOMAIN slug : IsSlugChar(slug[i]) \/ slug[i] = "-"
         /\ slug # <<>> => slug[1] # "-" /\ slug[Len(slug)] # "-"
         /\ \A i \in 1..Len(slug) - 1 : ~(slug[i] = "-" /\ slug[i + 1] = "-")
         /\ KeptChars(slug) = KeptChars(lower)
         /\ Len(slug) = Len(KeptChars(lower)) + Cardinality(InnerRuns(lower))

\* C13 witness: the slug of a name with a date prefix, an upper-case letter
\* and a run of two other characters between two kept ones.
C13_PrefixedMixedName ==
    /\ response.handler = "slug"
    /\ HasDatePrefix(response.filename)
    /\ \E i \in DOMAIN response.filename : response.filename[i] \in UpperLetters
    /\ \E i \in InnerRuns(ToLowerCase(response.filename)) :
         ~IsSlugChar(ToLowerCase(response.filename)[i + 2])
    /\ \E i \in DOMAIN response.slug : response.slug[i] = "-"


(***************************************************************************)
(* Two files of one slug (blog/hello.md and pages/hello.md), WatcherSpec.  *)
(***************************************************************************)
\* The scan of initialize() is over and no file has changed since it began.
ScanJustDone == pc = "start_watching" /\ budget = MaxEnv

\* C14: the index holds at most one record under a slug; once an upsert
\* of a file has completed, the record under its slug is that file's; and
\* when initialize() is over, a parseable page file holds the slug it
\* shares with a blog file, which holds it only when the page file gave
\* no record.
C14_LastUpsertHoldsTheSlug ==
    /\ \A i, j \in DOMAIN index : index[i].slug = index[j].slug => i = j
    /\ (response.handler = "reindex" /\ ~ParseThrows(response.text)) =>
         GetBySlug(index, SlugOf(response.filePath)).filePath
           = response.filePath
    /\ (ScanJustDone /\ ~ParseThrows(disk[HelloPage])) =>
         GetBySlug(index, SlugOf(HelloPage)).filePath = HelloPage
    /\ (ScanJustDone /\ ParseThrows(disk[HelloPage])
          /\ ~ParseThrows(disk[HelloBlog])) =>
         GetBySlug(index, SlugOf(HelloBlog)).filePath = HelloBlog

\* initialize() has scanned a blog file and a page file of the same slug,
\* both parseable.
C14_PageOverBlogScanned ==
    /\ ScanJustDone
    /\ SlugOf(HelloBlog) = SlugOf(HelloPage)
    /\ ~ParseThrows(disk[HelloBlog])
    /\ ~ParseThrows(disk[HelloPage])
    /\ Len(index) >= 1

\* The watcher has upserted the blog file over the record of the page file.
C14_BlogOverPageReindexed ==
    /\ response.handler = "reindex"
    /\ response.filePath = HelloBlog
    /\ ~ParseThrows(response.text)
    /\ \E i \in DOMAIN response.before :
         response.before[i].filePath = HelloPage

(***************************************************************************)
(* getBySlug on the indexer alone (SpecQuery).                             *)
(***************************************************************************)
\* C15: getBySlug(slug) answers with the record whose slug is exactly the
\* slug asked for, and with the not-found value (null) when no record of
\* the index has that slug.
C15_GetBySlugExactOrNull ==
    response.handler = "get" =>
      IF \E i \in DOMAIN index : index[i].slug = response.slug
        THEN /\ response.item # NotFound
             /\ response.item.slug = response.slug
             /\ \E i \in DOMAIN index : index[i] = response.item
        ELSE response.item = NotFound

\* The empty slug, a key of no record, has been looked up in an index of
\* several records.
C15_NearMissNotFound ==
    /\ response.handler = "get"
    /\ response.slug = <<>>
    /\ response.item = NotFound
    /\ Len(index) >= 2

(***************************************************************************)
(* The kind of a record (WatcherSpec).                                     *)
(***************************************************************************)
\* The type the scan and the watcher pass for a file of a directory.
DirectoryHint(filePath) ==
    IF filePath.dir = "blog" THEN Str("blog") ELSE Str("page")

AdminWriteNext ==
    \/ \E dir \in Dirs : ScanDirectory(dir) \/ ScanIndexFile(dir) \/ ScanDone(dir)
    \/ StartWatching
    \/ \E p \in Paths : WatcherAddChange(p)
    \/ \E task \in tasks : ReindexComplete(task)
    \/ \E title \in Titles, type \in Types, body \in Bodies :
         AdminCreate(title, type, body)
    \/ \E slug \in Slugs, title \in Titles, type \in Types, body \in Bodies :
         AdminEdit(slug, title, type, body)

AdminWriteSpec == Init /\ [][AdminWriteNext]_vars

\* C17: a create or edit request whose generated text validate() rejects
\* is answered with the validation messages and not as a success (a text
\* with a blank body with the message that the markdown content is empty),
\* and the step of the handler leaves every file and the index as they were.
C17_RejectedTextNotWritten ==
    [][(/\ response'.handler \in {"create", "edit"}
        /\ response'.errors # <<>>)
         => /\ ~response'.ok
            /\ disk' = disk
            /\ index' = index
            /\ pending' = pending
            /\ (response'.handler = "create"
                  /\ response'.text.body \in BlankBodies)
                 => \E i \in DOMAIN response'.errors :
                      response'.errors[i] = "Markdown content is empty"]_vars

\* A create request for a new file has been rejected by validate().
C17_CreateRejected ==
    /\ response.handler = "create"
    /\ response.errors # <<>>
    /\ ~disk[response.filePath].exists

\* An edit request for an indexed, parseable file has been rejected by
\* validate().
C17_EditRejected ==
    /\ response.handler = "edit"
    /\ response.errors # <<>>
    /\ ~ParseThrows(disk[response.filePath])

(***************************************************************************)
(* MarkdownHandler.validate on its own (SpecValidate): the texts are a     *)
(* text whose front matter is no YAML, and the texts of every front matter *)
(* and body below; a text of no front-matter key stands for a file without *)
(* a front matter block.                                                   *)
(***************************************************************************)
\* Titles: none, a string, the empty string, a number; types: none, the
\* two kinds, another word; bodies: a text, nothing, white space.
ValidateTexts ==
    {BadFile}
    \cup {Markdown([NoKeys EXCEPT !["title"] = title, !["type"] = type,
                                  !["order"] = order, !["date"] = date],
                   body) :
            title \in {Undefined, Chars(Hello), Chars(<<>>), Num(1)},
            type \in {Undefined, Str("blog"), Str("page"), Str("post")},
            order \in {Undefined, Num(1)}, date \in {Undefined, DateOf(0)},
            body \in {"text", "", " "}}

\* validate(content)
ValidateText(text) ==
    /\ pc = "constructed"
    /\ response' = [handler |-> "validate", text |-> text,
                    errors |-> Validate(text),
                    valid |-> Validate(text) = <<>>]
    /\ UNCHANGED <<disk, dirExists, writes, request, sessionFiles,
                 sessionSets, index, now, pc, scanFiles, watching,
                   pending, tasks, budget>>

ValidateNext == \E text \in ValidateTexts : ValidateText(text)

SpecValidate == QueryInit /\ [][ValidateNext]_vars

\* The messages of the checks a text fails, each check taken on its own.
FailedChecks(text) ==
    (IF text.parses /\ text.data = NoKeys /\ text.body \in {"", " "}
       THEN {"Content is empty"} ELSE {})
    \cup (IF ~text.parses THEN {"Invalid front matter YAML"} ELSE {})
    \cup (IF /\ text.parses
              /\ \/ text.data["title"].t \notin {"str", "chars"}
                 \/ text.data["title"] \in {Str(""), Chars(<<>>)}
            THEN {"Front matter must include a title field"} ELSE {})
    \cup (IF text.parses /\ text.data["type"] \notin {Str("blog"), Str("page")}
            THEN {"Front matter must include a type field"} ELSE {})
    \cup (IF text.parses /\ text.body \in {"", " "}
            THEN {"Markdown content is empty"} ELSE {})

\* The messages of validate that belong to a check of the list.
CheckMessages ==
    {"Content is empty", "Invalid front matter YAML",
     "Front matter must include a title field",
     "Front matter must include a type field", "Markdown content is empty"}

\* C18: validate returns one error for each check the text fails, no
\* error of a check it passes, and valid exactly when there is no error.
C18_OneErrorForEachFailedCheck ==
    response.handler = "validate" =>
      /\ \A m \in FailedChecks(response.text) :
           Cardinality({i \in DOMAIN response.errors :
                          response.errors[i] = m}) = 1
      /\ \A i \in DOMAIN response.errors :
           response.errors[i] \in CheckMessages
             => response.errors[i] \in FailedChecks(response.text)
      /\ response.valid <=> response.errors = <<>>

\* A text that passes the two checks validate returns at once for has one
\* error for each check it fails, and valid exactly when there is none.
C18_CollectedPastTheEarlyReturns ==
    (/\ response.handler = "validate"
     /\ response.text.parses
     /\ ~(response.text.data = NoKeys /\ response.text.body \in {"", " "}))
      => /\ \A m \in FailedChecks(response.text) :
              Cardinality({i \in DOMAIN response.errors :
                             response.errors[i] = m}) = 1
         /\ \A i \in DOMAIN response.errors :
              response.errors[i] \in CheckMessages
                => response.errors[i] \in FailedChecks(response.text)
         /\ response.valid <=> response.errors = <<>>

\* A text without title and type and with a blank body got three errors.
C18_ThreeErrorsCollected ==
    /\ response.handler = "validate"
    /\ Len(response.errors) >= 3

(***************************************************************************)
(* The server with its reorder and delete requests and the watcher events  *)
(* they cause (AdminReorderSpec).                                          *)
(***************************************************************************)
AdminReorderNext ==
    \/ \E dir \in Dirs : ScanDirectory(dir) \/ ScanIndexFile(dir) \/ ScanDone(dir)
    \/ StartWatching
    \/ \E p \in Paths : WatcherAddChange(p) \/ WatcherUnlink(p)
    \/ \E task \in tasks : ReindexComplete(task)
    \/ \E slug \in Slugs : AdminDelete(slug)
    \/ \E items \in ReorderBatches : AdminReorder(items)

AdminReorderSpec == Init /\ [][AdminReorderNext]_vars

\* The file of the record an item of a batch names, when there is one.
ReorderFile(item) == GetBySlug(index, item.slug).filePath

\* An item the handler can carry out: its slug is in the index and the
\* file of the record can be read and parsed.
Reorderable(item) ==
    /\ \E i \in DOMAIN index : index[i].slug = item.slug
    /\ ~ParseThrows(disk[ReorderFile(item)])

\* C19: in a reorder batch every item that can be carried out has its file
\* rewritten with the new order, whatever becomes of the other items of
\* the batch, and the files of no other record change.
C19_FailuresDoNotBlockOthers ==
    [][response'.handler = "reorder" =>
         /\ \A i \in DOMAIN response'.items :
              Reorderable(response'.items[i]) =>
                /\ ~ParseThrows(disk'[ReorderFile(response'.items[i])])
                /\ ParsedMetadata(disk'[ReorderFile(response'.items[i])])["order"]
                     = response'.items[i].order
         /\ \A p \in Paths :
              disk'[p] # disk[p] =>
                \E i \in DOMAIN response'.items :
                  /\ Reorderable(response'.items[i])
                  /\ p = ReorderFile(response'.items[i])]_vars

\* A batch of a failing item before an item that was carried out: the
\* file of the second has the new order.
C19_RewrittenAfterAFailure ==
    /\ response.handler = "reorder"
    /\ Len(response.items) = 2
    /\ Len(response.details) = 1
    /\ response.details[1].slug = response.items[1].slug
    /\ response.items[2].slug # response.items[1].slug
    /\ \E i \in DOMAIN index :
         /\ index[i].slug = response.items[2].slug
         /\ ParsedMetadata(disk[index[i].filePath])["order"]
              = response.items[2].order
         /\ index[i].order # response.items[2].order

\* C20: the answer to a reorder batch has one entry for every item of the
\* batch, marked as success or failure.
C20_EveryItemReported ==
    response.handler = "reorder" =>
      /\ Len(response.details) = Len(response.items)
      /\ \A i \in DOMAIN response.items :
           /\ response.details[i].slug = response.items[i].slug
           /\ response.details[i].success \in BOOLEAN

\* What the answer does hold: an entry for each item that failed and for
\* no other, in the order of the batch; without a failure, the number of
\* items and no entry.
C20_FailuresItemised ==
    response.handler = "reorder" =>
      /\ \A j \in DOMAIN response.details :
           /\ ~response.details[j].success
           /\ \E i \in DOMAIN response.items :
                /\ response.items[i].slug = response.details[j].slug
                /\ \/ ~\E n \in DOMAIN index :
                         index[n].slug = response.items[i].slug
                   \/ ParseThrows(disk[ReorderFile(response.items[i])])
      /\ response.ok <=> response.details = <<>>
      /\ response.ok => response.updated = Len(response.items)

(***************************************************************************)
(* What a reorder keeps of a file (AdminReorderSpec).                      *)
(***************************************************************************)
\* Two values of a front-matter key that are the same value of the same
\* type: dates on the same day, anything else equal.
SameValue(old, new) ==
    IF old.t = "date"
      THEN new.t = "date" /\ DateOnly(new.n) = DateOnly(old.n)
      ELSE new = old

\* The keys a rewrite returns as the same value of the same type.
KeptKeys(old, new) ==
    {k \in Keys \ {"order"} : SameValue(old.data[k], new.data[k])}

\* C21: the file a reorder has rewritten parses to the requested order,
\* the body it had, and for every other front-matter key the value it
\* had, of the same type.
C21_ReorderKeepsTheOtherKeys ==
    [][response'.handler = "reorder" =>
         \A i \in DOMAIN response'.items :
           Reorderable(response'.items[i]) =>
             LET p == ReorderFile(response'.items[i])
             IN /\ ~ParseThrows(disk'[p])
                /\ ParsedMetadata(disk'[p])["order"] = response'.items[i].order
                /\ ParsedContent(disk'[p]) = ParsedContent(disk[p])
                /\ KeptKeys(disk[p], disk'[p]) = Keys \ {"order"}]_vars

\* What does hold: the order, the body, and every other key whose value is
\* no list.
C21_ReorderKeepsTheScalarKeys ==
    [][response'.handler = "reorder" =>
         \A i \in DOMAIN response'.items :
           Reorderable(response'.items[i]) =>
             LET p == ReorderFile(response'.items[i])
             IN /\ ~ParseThrows(disk'[p])
                /\ ParsedMetadata(disk'[p])["order"] = response'.items[i].order
                /\ ParsedContent(disk'[p]) = ParsedContent(disk[p])
                /\ {k \in Keys \ {"order"} : disk[p].data[k].t # "list"}
                     \subseteq KeptKeys(disk[p], disk'[p])]_vars

(***************************************************************************)
(* The path of a created file (SpecSlug).                                  *)
(***************************************************************************)
\* C22: the path the create handler goes on to write lies inside the
\* content root: it is a file directly in the blog or the pages directory,
\* whose name has no path separator and no "..", whatever the title holds.
C22_CreatedPathInsideContentRoot ==
    (response.handler = "path" /\ response.accepted) =>
      /\ response.filePath.dir
           = (IF response.type = "blog" THEN "blog" ELSE "pages")
      /\ response.filePath.name # <<>>
      /\ \A i \in DOMAIN response.filePath.name :
           /\ response.filePath.name[i] \notin {"/", "\\"}
           /\ response.filePath.name[i] = "."
                => (i + 1 \in DOMAIN response.filePath.name
                      => response.filePath.name[i + 1] # ".")

\* A title that climbs out of the directory ("../a") has been accepted.
C22_ClimbingTitleAccepted ==
    /\ response.handler = "path"
    /\ response.accepted
    /\ Len(response.title) >= 4
    /\ SubSeq(response.title, 1, 3) = <<".", ".", "/">>

(***************************************************************************)
(* After stopWatching() (WatcherSpec).                                     *)
(***************************************************************************)
\* C23: once stopWatching() has returned, the index changes no more.
C23_IndexStillOnceStopped ==
    [][pc = "watcher_closed" => index' = index]_vars

\* What does hold: once stopWatching() has returned, nothing waits in the
\* watcher and no watcher event is delivered; the index changes only when
\* a file read that was under way completes.
C23_OnlyReadsUnderWayComplete ==
    [][pc = "watcher_closed" =>
         /\ pending = [p \in Paths |-> "none"]
         /\ Cardinality(tasks') <= Cardinality(tasks)
         /\ index' # index => tasks' # tasks]_vars

(***************************************************************************)
(* Writes in a burst (WatcherSpec): the writes of a path before the        *)
(* watcher has delivered the event of the first.                           *)
(***************************************************************************)
\* The reindex calls of a path that are under way.
UpsertsOf(running, p) == {task \in running : task.filePath = p}

C27_RemovesOnlyTheRecordOfThePath ==
    response.handler = "unlink" =>
      \A i \in DOMAIN response.before :
        response.before[i].filePath # response.filePath =>
          \E j \in DOMAIN index : index[j] = response.before[i]

\* What does hold: removeFromIndex(P) takes away the record under the slug
\* of P, whichever file it was made from, and no record of another slug.
C27_RemovesTheRecordOfTheSlug ==
    response.handler = "unlink" =>
      /\ \A j \in DOMAIN index : index[j].slug # SlugOf(response.filePath)
      /\ \A i \in DOMAIN response.before :
           response.before[i].slug # SlugOf(response.filePath) =>
             \E j \in DOMAIN index : index[j] = response.before[i]

(***************************************************************************)
(* Readers and upserts under way (WatcherSpec).                            *)
(***************************************************************************)
\* C28: whatever upserts are under way, every record a reader finds in the
\* index is whole: all its fields are those one call of _indexFile made
\* from the record's own front matter, path and one reading of the clock.
C28_RecordsAreWhole ==
    \A i \in DOMAIN index :
      \E clock \in 0..MaxNow :
        index[i] = ContentItem(index[i].filePath,
                               DirectoryHint(index[i].filePath),
                               index[i].metadata, clock)

\* An upsert of an indexed file waits for its file read, the text it reads
\* differing from the record a reader finds, which is the previous one.
C28_OldRecordWhileReadUnderWay ==
    \E task \in tasks :
      /\ ~ParseThrows(task.text)
      /\ Found(GetBySlug(index, SlugOf(task.filePath)))
      /\ GetBySlug(index, SlugOf(task.filePath)).filePath = task.filePath
      /\ GetBySlug(index, SlugOf(task.filePath)).metadata
           # ParsedMetadata(task.text)
      /\ GetBySlug(index, SlugOf(task.filePath)).published
           # ItemPublished(ParsedMetadata(task.text))

(***************************************************************************)
(* Upserts of one path that overlap (WatcherSpec).                         *)
(***************************************************************************)
\* C29: once the upserts of a path have all completed, with no event of
\* the path waiting in the watcher, the record made from the path holds
\* the front matter of the file as it is now on disk.
C29_LatestContentAfterOverlap ==
    (/\ response.handler = "reindex"
     /\ watching
     /\ UpsertsOf(tasks, response.filePath) = {}
     /\ pending[response.filePath] = "none"
     /\ ~ParseThrows(disk[response.filePath]))
      => \A i \in DOMAIN index :
           index[i].filePath = response.filePath =>
             index[i].metadata = ParsedMetadata(disk[response.filePath])

\* C30: once an upsert of a path has completed and the unlink event of the
\* deleted file has been handled, no upsert or event of the path being
\* left, the index holds no record made from the path.
C30_NoRecordOfADeletedFile ==
    (/\ response.handler = "reindex"
     /\ watching
     /\ ~disk[response.filePath].exists
     /\ UpsertsOf(tasks, response.filePath) = {}
     /\ pending[response.filePath] = "none")
      => \A i \in DOMAIN index : index[i].filePath # response.filePath

(***************************************************************************)
(* The admin routes that change state.  Each is registered as              *)
(* app.post/app.delete(path, requireAuth, verifyCsrfToken, handler), after  *)
(* the session middleware and csrfMiddleware, which run for every request.  *)
(***************************************************************************)

\* A request reaches the router once its session is loaded: passport has
\* settled req.isAuthenticated() and csrfMiddleware has made sure the session
\* holds a token.  One admin request is followed at a time.  body, query and header are the tokens the request carries
\* as body._csrf, query._csrf and x-csrf-token ("" when absent).
AdminRequestArrives(req) ==
    /\ pc = "serving"
    /\ budget > 0
    /\ request = NoRequest \/ response # NoResponse
    /\ request' = req
    /\ response' = NoResponse
    /\ budget' = budget - 1
    /\ UNCHANGED <<disk, dirExists, writes, sessionFiles, sessionSets, index, now, pc,
                   scanFiles, watching, pending, tasks>>

\* A requireAuth that lets every request through.
RequireAuthOfAnyone(req) == TRUE

\* requireAuth lets the request through when req.isAuthenticated().
RequireAuth(req) == req.authenticated

\* verifyCsrfToken lets the request through when its method is GET, HEAD or
\* OPTIONS, or when the first token it carries (body || query || header) is
\* the session's.
VerifyCsrfToken(req) ==
    LET method == IF req.route = "delete" THEN "DELETE" ELSE "POST"
        token == IF req.body # "" THEN req.body
                 ELSE IF req.query # "" THEN req.query
                 ELSE req.header
    IN \/ method \in {"GET", "HEAD", "OPTIONS"}
       \/ ~(token = "" \/ token # req.csrfToken)

\* handler_adminThemesActivate, handler_adminSettingsSite and
\* handler_adminSettingsUsers: they change the theme and the settings, which
\* are no part of the content, and answer with a redirect to their page.
AdminConfigure(route) ==
    /\ response' = [handler |-> route, ok |-> TRUE, status |-> 302]
    /\ budget' = budget - 1
    /\ UNCHANGED <<disk, dirExists, writes, request, sessionFiles, sessionSets, index,
                   now, pc, scanFiles, watching, pending, tasks>>

\* The route's chain for the request: requireAuth redirects to /login,
\* verifyCsrfToken answers 403, and only then the handler runs.
AdminDispatch ==
    /\ pc = "serving"
    /\ budget > 0
    /\ request # NoRequest
    /\ response = NoResponse
    /\ IF ~RequireAuth(request) \/ ~VerifyCsrfToken(request)
       THEN /\ response' = IF ~RequireAuth(request)
                           THEN [handler |-> "requireAuth", ok |-> FALSE,
                                 status |-> 302, location |-> "/login"]
                           ELSE [handler |-> "verifyCsrfToken", ok |-> FALSE,
                                 status |-> 403,
                                 error |-> "Invalid CSRF token"]
            /\ budget' = budget - 1
            /\ UNCHANGED <<disk, dirExists, writes, request, sessionFiles,
                           sessionSets, index, now, pc, scanFiles, watching,
                           pending, tasks>>
       ELSE CASE request.route = "create" ->
                   \E title \in Titles, type \in Types, body \in Bodies :
                       AdminCreate(title, type, body)
              [] request.route = "edit" ->
                   \E slug \in Slugs, title \in Titles, type \in Types,
                      body \in Bodies : AdminEdit(slug, title, type, body)
              [] request.route = "delete" ->
                   \E slug \in Slugs : AdminDelete(slug)
              [] request.route = "reorder" ->
                   \E items \in ReorderBatches : AdminReorder(items)
              [] OTHER -> AdminConfigure(request.route)

AdminGateSpec ==
    Init /\ [][\/ \E dir \in Dirs :
                    ScanDirectory(dir) \/ ScanIndexFile(dir) \/ ScanDone(dir)
               \/ StartWatching
               \/ \E req \in [route : {"create", "edit", "delete", "reorder",
                                       "themes_activate", "settings_site",
                                       "settings_users"},
                              authenticated : BOOLEAN,
                              csrfToken : {"s"},
                              body : {"", "s", "x"},
                              query : {"", "s"},
                              header : {"", "s"}] :
                    AdminRequestArrives(req)
               \/ AdminDispatch]_vars

\* C25: a state-changing admin handler runs, and the content changes, only
\* for a request that is authenticated and carries a CSRF token equal to the
\* token of its session; an unauthenticated request is answered with a
\* redirect to /login and changes nothing.
C25_AdminHandlersGated ==
    [][(request # NoRequest /\ response = NoResponse
        /\ response' # NoResponse) =>
          /\ (\/ response'.handler \notin {"requireAuth", "verifyCsrfToken"}
              \/ disk' # disk \/ index' # index) =>
                 /\ request.authenticated
                 /\ \E t \in {request.body, request.query, request.header} :
                       t # "" /\ t = request.csrfToken
          /\ ~request.authenticated =>
                 /\ response'.handler = "requireAuth"
                 /\ response'.status = 302
                 /\ response'.location = "/login"
                 /\ UNCHANGED <<disk, dirExists, writes, index, pending, tasks,
                                sessionFiles>>]_vars

\* An unauthenticated delete carrying the session's token has been
\* redirected.
C25_UnauthenticatedRedirected ==
    /\ request # NoRequest
    /\ request.route = "delete"
    /\ ~request.authenticated
    /\ request.body = request.csrfToken
    /\ response.handler = "requireAuth"

(***************************************************************************)
(* The session store: configureAuth wraps fileStore.set so that a session  *)
(* file is removed when the directory holds the limit.  sessionFiles lists  *)
(* the stored session ids by modification time, oldest first.              *)
(***************************************************************************)

\* The limit of session files: 100 in configureAuth, scaled down.
SessionLimit == 2

\* The calls of fileStore.set that may be under way together.
MaxSets == 2

\* fileStore.set(sid, session, callback) starts fs.readdir and returns.
SessionSet(sid) ==
    /\ Cardinality(sessionSets) < MaxSets
    /\ sessionSets' = sessionSets \cup {[sid |-> sid, phase |-> "readdir"]}
    /\ UNCHANGED <<disk, dirExists, writes, request, sessionFiles, index, now, pc,
                   scanFiles, watching, pending, tasks, budget, response>>

\* readdir's callback: with the limit or more session files listed, the one
\* modified longest ago is unlinked; then originalSet starts its write.
SessionReaddir(call) ==
    /\ call.phase = "readdir"
    /\ sessionFiles' = IF Len(sessionFiles) >= SessionLimit
                       THEN Tail(sessionFiles)
                       ELSE sessionFiles
    /\ sessionSets' = (sessionSets \ {call})
                         \cup {[sid |-> call.sid, phase |-> "write"]}
    /\ UNCHANGED <<disk, dirExists, writes, request, index, now, pc, scanFiles,
                   watching, pending, tasks, budget, response>>

\* originalSet's write completes: the session's file is created or
\* rewritten, which makes it the one modified last.
SessionWrite(call) ==
    /\ call.phase = "write"
    /\ sessionFiles' = SelectSeq(sessionFiles, LAMBDA s : s # call.sid)
                          \o <<call.sid>>
    /\ sessionSets' = sessionSets \ {call}
    /\ UNCHANGED <<disk, dirExists, writes, request, index, now, pc, scanFiles,
                   watching, pending, tasks, budget, response>>

SessionSpec ==
    QueryInit /\ [][\/ \E sid \in 1..(SessionLimit + 2) : SessionSet(sid)
                    \/ \E call \in sessionSets : SessionReaddir(call)
                    \/ \E call \in sessionSets : SessionWrite(call)]_vars

\* C26: the number of stored session files never exceeds the limit, whatever
\* the order in which the steps of concurrent session writes take place.
C26_SessionFilesWithinLimit == Len(sessionFiles) <= SessionLimit

\* C31: every record of the index has the kind blog or page, whatever the
\* type field of the file's front matter holds.
C31_KindIsBlogOrPage ==
    \A i \in 1..Len(index) : index[i].type \in {Str("blog"), Str("page")}

\* C33: the publishedDate of every record is a valid date: the front
\* matter's date when it is one, otherwise the time the file was observed.
C33_PublishedDateValid ==
    \A i \in 1..Len(index) :
        LET given == index[i].metadata["date"]
        IN /\ index[i].date.t = "date"
           /\ (given.t = "undefined" \/ NewDate(given).t # "date") =>
                 index[i].date = DateOf(now)

\* C34: the sortOrder of every record is an integer: the front matter's
\* order when the file has one, otherwise 0.
C34_SortOrderInteger ==
    \A i \in 1..Len(index) :
        LET given == index[i].metadata["order"]
        IN /\ index[i].order.t = "num"
           /\ index[i].order = IF given.t = "undefined" THEN Num(0) ELSE given

\* C32: for a file without a front-matter type, the kind the initial scan
\* assigns and the kind a later reindex of the same path assigns are equal,
\* whatever the content root: blog in the blog directory, page in pages.
C32_ScanAndReindexAgreeOnKind ==
    response.handler = "kind" =>
        /\ response.reindexed = response.scanned
        /\ ContentType(NoKeys, response.reindexed) =
              IF response.filePath.dir = "blog" THEN Str("blog")
              ELSE Str("page")

\* C35: an admin delete that finds nothing left to delete, the slug's file
\* having been deleted by an earlier request, answers with the not-found
\* result (404) and not with an error response, whether or not the watcher
\* has removed the record in between.
C35_RepeatedDeleteNotFound ==
    (response.handler = "delete" /\ ~response.ok) => response.status = 404

\* C36: a reindex whose file cannot be read or parsed completes without
\* throwing and leaves the index exactly as it was before the call: the
\* record the slug had is kept as it was.
C36_FailedReindexKeepsIndex ==
    (response.handler = "reindex" /\ ParseThrows(response.text)) =>
        index = response.before

\* A reindex of a file that no longer parses has completed, and the record
\* the slug had before is still there.
C36_RecordKeptAfterFailure ==
    /\ response.handler = "reindex"
    /\ ParseThrows(response.text)
    /\ IndexHas(index, SlugOf(response.filePath))

(***************************************************************************)
(* The admin handlers step by step.  Each handler awaits its reads and     *)
(* checks (fs.access, parseFile, fs.readFile) and then awaits              *)
(* fs.writeFile; the handlers of other requests run in between.  A record  *)
(* of writes is a handler past its checks: the file it will write, the     *)
(* text it built, and the text it read.                                    *)
(***************************************************************************)

\* What a handler answers without writing.
AdminRejected(handler, p) ==
    [handler |-> handler, ok |-> FALSE, filePath |-> p, text |-> NoFile,
     before |-> NoFile, read |-> NoFile]

\* handler_adminCreatePost up to its writeFile: the slug, the path check,
\* fs.access finding no file, and validate.
AdminCreateChecked(title, type, body) ==
    /\ pc = "serving"
    /\ budget > 0
    /\ now' \in Clock
    /\ LET p == CreatePath(title, type)
           text == CreatedFile(title, type, body, now')
           checked == /\ TitleSlug(title) # <<>>
                      /\ IsPathInContentDirectory(p)
                      /\ ~disk[p].exists
                      /\ Validate(text) = <<>>
                      /\ dirExists[p.dir]
       IN /\ TitleSlug(title) # <<>> => p \in Paths
          /\ writes' = IF checked
                         THEN writes \cup {[handler |-> "create",
                                            filePath |-> p, text |-> text,
                                            read |-> disk[p]]}
                         ELSE writes
          /\ response' = IF checked THEN NoResponse
                         ELSE AdminRejected("create", p)
    /\ budget' = budget - 1
    /\ UNCHANGED <<disk, dirExists, request, sessionFiles, sessionSets, index,
                   pc, scanFiles, watching, pending, tasks>>

\* handler_adminEditPost up to its writeFile: the lookup, the path check,
\* parseFile of the file as it is now, the rebuilt text and validate.
AdminEditRead(slug, title, type, body) ==
    /\ pc = "serving"
    /\ budget > 0
    /\ LET item == GetBySlug(index, slug)
           p == item.filePath
           text == RewrittenFile(
                     [ParsedMetadata(disk[p]) EXCEPT
                        !["title"] = Chars(title), !["type"] = Str(type)],
                     body)
           checked == /\ Found(item)
                      /\ IsPathInContentDirectory(p)
                      /\ ~ParseThrows(disk[p])
                      /\ Validate(text) = <<>>
       IN /\ writes' = IF checked
                         THEN writes \cup {[handler |-> "edit",
                                            filePath |-> p, text |-> text,
                                            read |-> disk[p]]}
                         ELSE writes
          /\ response' = IF checked THEN NoResponse
                         ELSE AdminRejected("edit", p)
    /\ budget' = budget - 1
    /\ UNCHANGED <<disk, dirExists, request, sessionFiles, sessionSets, index,
                   now, pc, scanFiles, watching, pending, tasks>>

\* One item of handler_adminReorder up to its writeFile: the lookup, the
\* path check, readFile and parseFile of the file as it is now, and the
\* text rebuilt with the item's order.
AdminReorderRead(item) ==
    /\ pc = "serving"
    /\ budget > 0
    /\ LET found == GetBySlug(index, item.slug)
           p == found.filePath
           checked == /\ Found(found)
                      /\ IsPathInContentDirectory(p)
                      /\ ~ParseThrows(disk[p])
           text == RewrittenFile(
                     [ParsedMetadata(disk[p]) EXCEPT !["order"] = item.order],
                     ParsedContent(disk[p]))
       IN /\ writes' = IF checked
                         THEN writes \cup {[handler |-> "reorder",
                                            filePath |-> p, text |-> text,
                                            read |-> disk[p]]}
                         ELSE writes
          /\ response' = IF checked THEN NoResponse
                         ELSE AdminRejected("reorder", p)
    /\ budget' = budget - 1
    /\ UNCHANGED <<disk, dirExists, request, sessionFiles, sessionSets, index,
                   now, pc, scanFiles, watching, pending, tasks>>

\* A handler's fs.writeFile completes, replacing whatever the file holds
\* by then, and the handler answers with success.
AdminWriteComplete(w) ==
    /\ disk' = [disk EXCEPT ![w.filePath] = w.text]
    /\ pending' = WriteNoted(pending, w.filePath, disk[w.filePath].exists)
    /\ writes' = writes \ {w}
    /\ response' = [handler |-> w.handler, ok |-> TRUE,
                    filePath |-> w.filePath, text |-> w.text,
                    before |-> disk[w.filePath], read |-> w.read]
    /\ UNCHANGED <<dirExists, request, sessionFiles, sessionSets, index, now,
                   pc, scanFiles, watching, tasks, budget>>

AdminConcurrentSpec ==
    Init /\ [][\/ \E dir \in Dirs : ScanDirectory(dir)
               \/ \E dir \in Dirs : ScanIndexFile(dir)
               \/ \E dir \in Dirs : ScanDone(dir)
               \/ StartWatching
               \/ \E title \in Titles, type \in Types, body \in Bodies :
                     AdminCreateChecked(title, type, body)
               \/ \E slug \in Slugs, title \in Titles, type \in Types,
                     body \in Bodies : AdminEditRead(slug, title, type, body)
               \/ \E item \in ReorderItems : AdminReorderRead(item)
               \/ \E w \in writes : AdminWriteComplete(w)]_vars

\* C37: admin create never overwrites an existing file: a create whose
\* file exists by the time it writes, be it written by a concurrent create
\* of the same title and type, is rejected and leaves the file as it is.
C37_CreateNeverOverwrites ==
    (response.handler = "create" /\ response.ok) => ~response.before.exists

\* C38: when an edit and a reorder of the same record overlap and both
\* succeed, neither update is lost: a reorder's write keeps the title, type
\* and body the file holds by then, and an edit's write keeps its order.
C38_NeitherUpdateLost ==
    (response.handler \in {"edit", "reorder"} /\ response.ok
     /\ ~ParseThrows(response.before)) =>
        IF response.handler = "reorder"
          THEN /\ response.text.data["title"] = response.before.data["title"]
               /\ response.text.data["type"] = response.before.data["type"]
               /\ response.text.body = response.before.body
          ELSE response.text.data["order"] = response.before.data["order"]

\* C39: validateFilePath accepts a path only when the resolved path is the
\* base directory or a descendant of it, so that the static asset handlers
\* send no file outside their base directory: a path into a sibling
\* directory whose name starts with the base's name is rejected.
C39_StaticAssetInsideBase ==
    (response.handler = "static" /\ response.status = 200) =>
        /\ Len(response.sent) >= Len(response.baseDir)
        /\ SubSeq(response.sent, 1, Len(response.baseDir)) = response.baseDir

\* C40: every entry of the index is stored under the slug of its own file:
\* the key, which is the record's slug, is the slug generated from the
\* basename of the record's filePath, and no two entries share a key.
C40_KeyIsSlugOfOwnFile ==
    /\ \A i \in 1..Len(index) :
          index[i].slug = GenerateSlug(Basename(index[i].filePath))
    /\ \A i, j \in 1..Len(index) : index[i].slug = index[j].slug => i = j

\* The index holds the record of a dated blog file and of a page whose
\* name has capitals and a space, the second set by a reindex.
C40_DatedAndSpacedNamesIndexed ==
    /\ response.handler = "reindex"
    /\ response.filePath = AboutPage
    /\ \E i \in 1..Len(index) : index[i].filePath = AboutPage
    /\ \E i \in 1..Len(index) : index[i].filePath = HelloBlog
=============================================================================
